---- MODULE Spec2Model ----
(***************************************************************************)
(* A model of the glue code of the two-layer risk-scoring comparison:      *)
(* the one-hot generator of algorithm_compare.py, the metric report, the  *)
(* driver, and the model-order variants that orchestrate the per-subscale  *)
(* classifiers and the RiskSLIM wrapper.                                   *)
(*                                                                         *)
(* Python strings are sequences of one-character strings; numbers read by  *)
(* float() are kept in tenths (float("2.5") is 25), so that parsing is     *)
(* something the checks can refute.                                        *)
(***************************************************************************)
EXTENDS Integers, Sequences, FiniteSets, TLC

VARIABLES
    pc,                 \* position of the function or script under study
    \* generateCurRowInDict (algorithm_compare.py 98-113)
    var, split_num, whichDivision, temp_row,
    \* checkWhichDivision (algorithm_compare.py 78-95)
    cur_intervals, cur_split_list, cur_value, division,
    \* generateOneHotByList (algorithm_compare.py 116-154)
    list, var_split_list, data, written,
    \* original_two_layer_model.run and LR_1_RiskSLIM_2.run
    variant, subscales, n_rows, loop_i, train_y, test_y, sub_lrs, n_lr,
    subscale_prob_train, subscale_prob_test, solution, files, log, result,
    \* printPerformance (algorithm_compare.py 36-67)
    pp_test_y, pp_pred_y, TP, FN, FP, TN, printed,
    \* riskslim_in_use.run
    file_path, returnSolution, csv_file, train_X, test_X, cpa_data, model_info,
    pred_rows, pred_score, returned,
    \* the driver (algorithm_compare.py 157-289)
    RUN_RISKSLIM, RUN_LOGISTICREG, RUN_TWOLAYER, RUN_RISKSLIM_WITH_TWOLAYER,
    original_data_onehot, config_subscales, calls, ran, pending,
    \* RiskSLIM_1_LR_1.run (with subscales, n_rows, loop_i, train_y, test_y,
    \* n_lr, files, log and result above)
    NEED_GENERATE_CSV, sub_prob, sub_solutions, subscale_score_test,
    \* the preparation of the driver (algorithm_compare.py 163-248)
    split_file, var_start_with, var_to_be_bin, var_not_to_be_bin, temp,
    rootNode, var_all, NEED_GENERATE_ONE_HOT_CSV,
    \* the copies of generateColNames
    copy, col_list,
    \* the second layer of LR_1_RiskSLIM_2.run (lines 46-74)
    riskslim_intercept, riskslim_coef, test_matrix, score, pred_prob, pred_y

rowVars == <<var, split_num, whichDivision, temp_row>>
divVars == <<cur_intervals, cur_split_list, cur_value, division>>
ohVars == <<list, var_split_list, data, written>>
runVars == <<variant, subscales, n_rows, loop_i, train_y, test_y, sub_lrs, n_lr,
             subscale_prob_train, subscale_prob_test, solution, files, log, result>>
perfVars == <<pp_test_y, pp_pred_y, TP, FN, FP, TN, printed>>
rsVars == <<file_path, returnSolution, csv_file, train_X, test_X, cpa_data, model_info,
            pred_rows, pred_score, returned>>
drvVars == <<RUN_RISKSLIM, RUN_LOGISTICREG, RUN_TWOLAYER, RUN_RISKSLIM_WITH_TWOLAYER,
             original_data_onehot, config_subscales, calls, ran, pending>>
r1Vars == <<NEED_GENERATE_CSV, sub_prob, sub_solutions, subscale_score_test>>
prepVars == <<split_file, var_start_with, var_to_be_bin, var_not_to_be_bin, temp,
              rootNode, var_all, NEED_GENERATE_ONE_HOT_CSV>>
colVars == <<copy, col_list>>
l2Vars == <<riskslim_intercept, riskslim_coef, test_matrix, score, pred_prob, pred_y>>
restVars == <<prepVars, colVars, l2Vars>>
vars == <<pc, rowVars, divVars, ohVars, runVars, perfVars, rsVars, drvVars, r1Vars,
          restVars>>

\* a variable of a function that the specification at hand does not run
Unused == "unused"
\* a variable not assigned yet
None == "None"
\* the None that checkWhichDivision returns when no interval holds the value
\* (its other results are 1 or more)
NoDivision == 0

RowIdle == var = Unused /\ split_num = Unused /\ whichDivision = Unused /\ temp_row = Unused
OhIdle == list = Unused /\ var_split_list = Unused /\ data = Unused /\ written = Unused
RunIdle ==
    /\ variant = Unused /\ subscales = Unused /\ n_rows = Unused /\ loop_i = Unused
    /\ train_y = Unused /\ test_y = Unused /\ sub_lrs = Unused /\ n_lr = Unused
    /\ subscale_prob_train = Unused /\ subscale_prob_test = Unused
    /\ solution = Unused /\ files = Unused /\ log = Unused /\ result = Unused
DivIdle == cur_intervals = Unused /\ cur_split_list = Unused /\ cur_value = Unused /\ division = Unused
PerfIdle ==
    /\ pp_test_y = Unused /\ pp_pred_y = Unused /\ TP = Unused /\ FN = Unused
    /\ FP = Unused /\ TN = Unused /\ printed = Unused
RsIdle ==
    /\ file_path = Unused /\ returnSolution = Unused /\ csv_file = Unused
    /\ train_X = Unused /\ test_X = Unused /\ cpa_data = Unused /\ model_info = Unused
    /\ pred_rows = Unused /\ pred_score = Unused /\ returned = Unused
DrvIdle ==
    /\ RUN_RISKSLIM = Unused /\ RUN_LOGISTICREG = Unused /\ RUN_TWOLAYER = Unused
    /\ RUN_RISKSLIM_WITH_TWOLAYER = Unused /\ original_data_onehot = Unused
    /\ config_subscales = Unused /\ calls = Unused /\ ran = Unused /\ pending = Unused
R1Idle ==
    /\ NEED_GENERATE_CSV = Unused /\ sub_prob = Unused /\ sub_solutions = Unused
    /\ subscale_score_test = Unused
PrepIdle ==
    /\ split_file = Unused /\ var_start_with = Unused /\ var_to_be_bin = Unused
    /\ var_not_to_be_bin = Unused /\ temp = Unused /\ rootNode = Unused
    /\ var_all = Unused /\ NEED_GENERATE_ONE_HOT_CSV = Unused
ColIdle == copy = Unused /\ col_list = Unused
L2Idle ==
    /\ riskslim_intercept = Unused /\ riskslim_coef = Unused /\ test_matrix = Unused
    /\ score = Unused
    /\ pred_prob = Unused /\ pred_y = Unused
RestIdle == PrepIdle /\ ColIdle /\ L2Idle

\* what a specification of one function leaves alone
IdleButRow == DivIdle /\ OhIdle /\ RunIdle /\ PerfIdle /\ RsIdle /\ DrvIdle /\ R1Idle /\ RestIdle
IdleButDivision == RowIdle /\ OhIdle /\ RunIdle /\ PerfIdle /\ RsIdle /\ DrvIdle /\ R1Idle /\ RestIdle
IdleButOneHot == RowIdle /\ DivIdle /\ RunIdle /\ PerfIdle /\ RsIdle /\ DrvIdle /\ R1Idle /\ RestIdle
IdleButRuns == RowIdle /\ DivIdle /\ OhIdle /\ PerfIdle /\ RsIdle /\ DrvIdle /\ R1Idle /\ RestIdle
IdleButPerf == RowIdle /\ DivIdle /\ OhIdle /\ RunIdle /\ RsIdle /\ DrvIdle /\ R1Idle /\ RestIdle
IdleButRiskSlim == RowIdle /\ DivIdle /\ OhIdle /\ RunIdle /\ PerfIdle /\ DrvIdle /\ R1Idle /\ RestIdle
IdleButDriver == RowIdle /\ DivIdle /\ OhIdle /\ RunIdle /\ PerfIdle /\ RsIdle /\ R1Idle /\ RestIdle
OthersOfDriver == <<rowVars, divVars, ohVars, runVars, perfVars, rsVars, r1Vars, restVars>>
IdleButCached == RowIdle /\ DivIdle /\ OhIdle /\ PerfIdle /\ RsIdle /\ DrvIdle /\ RestIdle
OthersOfCached == <<rowVars, divVars, ohVars, perfVars, rsVars, drvVars, restVars>>
OthersOfRow == <<divVars, ohVars, runVars, perfVars, rsVars, drvVars, r1Vars, restVars>>
OthersOfDivision == <<rowVars, ohVars, runVars, perfVars, rsVars, drvVars, r1Vars, restVars>>
OthersOfOneHot == <<rowVars, divVars, runVars, perfVars, rsVars, drvVars, r1Vars, restVars>>
OthersOfRuns == <<rowVars, divVars, ohVars, perfVars, rsVars, drvVars, r1Vars, restVars>>
OthersOfPerf == <<rowVars, divVars, ohVars, runVars, rsVars, drvVars, r1Vars, restVars>>
OthersOfRiskSlim == <<rowVars, divVars, ohVars, runVars, perfVars, drvVars, r1Vars, restVars>>

---------------------------------------------------------------------------
(* Bounds of the model *)

\* largest number of bins of one variable (more than 9: two-digit suffixes)
MaxBins == 11
\* largest number of intervals of an arbitrary (not consecutive) split list
MaxLoose == 2
\* largest number of breakpoints of a consecutive split list
MaxBreaks == 3
\* largest number of variables of one subscale handed to generateOneHotByList
MaxList == 2
\* largest number of rows of the dataset
MaxRows == 2
\* largest number of subscales of the configuration
MaxSubscales == 2
\* largest number of rows of the one-hot tables that are split
MaxData == 4
\* largest number of test rows handed to printPerformance
MaxPred == 4
\* largest number of feature columns of a table handed to RiskSLIM
MaxFeatures == 2
\* largest number of rows of data/features_detail.csv
MaxFileRows == 3
\* largest number of subscale elements of config/subscale.xml
MaxElements == 2
\* number of one-hot columns of each subscale file
OneHotFeatures == 1

---------------------------------------------------------------------------
(* Python strings *)

Digit == <<"0", "1", "2", "3", "4", "5", "6", "7", "8", "9">>

\* str(i) of a non-negative int, and str(None)
RECURSIVE StrNat(_)
StrNat(i) == IF i < 10 THEN <<Digit[i + 1]>>
             ELSE StrNat(i \div 10) \o <<Digit[(i % 10) + 1]>>

Str(x) == IF x = NoDivision THEN <<"N", "o", "n", "e">> ELSE StrNat(x)

\* s[a:b] with 0 <= a, b <= len(s)
Slice(s, a, b) == IF b <= a THEN <<>> ELSE SubSeq(s, a + 1, b)

\* sub in s
InStr(sub, s) ==
    \E a \in 0..(Len(s) - Len(sub)) : Slice(s, a, a + Len(sub)) = sub

\* s.index(c): the first position of c, 0-based; -1 stands for ValueError
IndexOf(s, c) ==
    IF \E j \in 1..Len(s) : s[j] = c
    THEN (CHOOSE j \in 1..Len(s) : s[j] = c /\ \A h \in 1..(j - 1) : s[h] # c) - 1
    ELSE -1

DigitVal(c) == CHOOSE d \in 0..9 : Digit[d + 1] = c
IsDigit(c) == \E d \in 0..9 : Digit[d + 1] = c

RECURSIVE Strip(_)
Strip(s) == IF s = <<>> THEN s
            ELSE IF Head(s) = " " THEN Strip(Tail(s))
            ELSE IF s[Len(s)] = " " THEN Strip(SubSeq(s, 1, Len(s) - 1))
            ELSE s

RECURSIVE DigitsVal(_)
DigitsVal(s) == IF s = <<>> THEN 0
                ELSE 10 * DigitsVal(SubSeq(s, 1, Len(s) - 1)) + DigitVal(s[Len(s)])

AllDigits(s) == s # <<>> /\ \A j \in 1..Len(s) : IsDigit(s[j])

\* the unsigned part of a float literal, in tenths: "12" or "12.5"
UnsignedOk(s) ==
    LET dot == IndexOf(s, ".")
    IN  IF dot = -1 THEN AllDigits(s)
        ELSE /\ AllDigits(Slice(s, 0, dot))
             /\ Len(s) = dot + 2
             /\ IsDigit(s[Len(s)])

UnsignedTenths(s) ==
    LET dot == IndexOf(s, ".")
    IN  IF dot = -1 THEN 10 * DigitsVal(s)
        ELSE 10 * DigitsVal(Slice(s, 0, dot)) + DigitVal(s[Len(s)])

\* float(s): surrounding blanks are stripped, an optional sign, then digits
FloatOk(s) ==
    LET t == Strip(s)
    IN  /\ t # <<>>
        /\ IF Head(t) \in {"-", "+"} THEN UnsignedOk(Tail(t)) ELSE UnsignedOk(t)

Float(s) ==
    LET t == Strip(s)
    IN  IF Head(t) = "-" THEN 0 - UnsignedTenths(Tail(t))
        ELSE IF Head(t) = "+" THEN UnsignedTenths(Tail(t))
        ELSE UnsignedTenths(t)

---------------------------------------------------------------------------
(* generateColNames and generateCurRowInDict *)

\* the variable names of the dataset used as inputs: plain names and names
\* that hold digits, as NumTrades60Ever2DerogPubRec does
VarNames == { <<"E", "x", "t">>, <<"M", "S", "i", "n", "c", "e">>,
              <<"N", "6", "0", "E", "v", "2", "D">>, <<"P", "c", "t", "1">> }

\* the suffixes counted from 0: str(i) in place of str(i+1)
RECURSIVE generateColNamesFromZero(_, _)
generateColNamesFromZero(v, n) ==
    IF n <= 0 THEN <<>>
    ELSE Append(generateColNamesFromZero(v, n - 1), v \o <<"_">> \o StrNat(n - 1))

RECURSIVE generateColNames(_, _)
generateColNames(v, n) ==
    IF n <= 0 THEN <<>>
    ELSE Append(generateColNames(v, n - 1), v \o <<"_">> \o Str(n))

\* the loop of generateCurRowInDict from column j on, with the dict built so far
RECURSIVE CurRowLoop(_, _, _, _, _)
CurRowLoop(names, j, which, res, hasSetOne) ==
    IF j > Len(names) THEN res
    ELSE IF hasSetOne
         THEN CurRowLoop(names, j + 1, which, (names[j] :> 0) @@ res, TRUE)
         ELSE IF InStr(Str(which), names[j])
              THEN CurRowLoop(names, j + 1, which, (names[j] :> 1) @@ res, TRUE)
              ELSE CurRowLoop(names, j + 1, which, (names[j] :> 0) @@ res, FALSE)

generateCurRowInDict(names, which) == CurRowLoop(names, 1, which, <<>>, FALSE)

RowInit ==
    /\ pc = "call"
    /\ var \in VarNames
    /\ split_num \in 1..MaxBins
    /\ whichDivision \in 1..split_num
    /\ temp_row = None
    /\ IdleButRow

RowCall ==
    /\ pc = "call"
    /\ temp_row' = generateCurRowInDict(generateColNames(var, split_num), whichDivision)
    /\ pc' = "returned"
    /\ UNCHANGED <<var, split_num, whichDivision, OthersOfRow>>

RowNext == RowCall

SpecRow == RowInit /\ [][RowNext]_vars

\* C1: the row generateCurRowInDict returns for bin k of a variable with n
\* bins is one-hot: column var_k holds 1 and every other column holds 0,
\* whatever the variable name is and for every n.
C1_OneHotRow ==
    pc = "returned" =>
        \A j \in 1..split_num :
            temp_row[var \o <<"_">> \o Str(j)] = (IF j = whichDivision THEN 1 ELSE 0)

---------------------------------------------------------------------------
(* checkWhichDivision *)

\* the ValueError of str.index or float
ValueError == -1

\* breakpoints of the binning file, in tenths: -3, 0, 2.5, 10, 12
Breakpoints == {-30, 0, 25, 100, 120}
\* the breakpoints of the split lists that are not consecutive
LooseBreakpoints == {-30, 25, 100}
\* values of a dataset column, in tenths
Values == {-40, -30, -10, 0, 10, 25, 30, 100, 110, 120, 130}

\* an interval of the binning file: (-INF,hi], (lo,hi] or (lo,+INF)
First(b) == [kind |-> "first", lo |-> 0, hi |-> b]
Mid(a, b) == [kind |-> "mid", lo |-> a, hi |-> b]
Last(a) == [kind |-> "last", lo |-> a, hi |-> 0]

\* the text of a number of the binning file: -3, 0, 2.5
NumText(t) ==
    LET a == IF t < 0 THEN 0 - t ELSE t
        whole == StrNat(a \div 10)
        frac == IF a % 10 = 0 THEN <<>> ELSE <<".", Digit[(a % 10) + 1]>>
    IN  (IF t < 0 THEN <<"-">> ELSE <<>>) \o whole \o frac

\* the text of an interval, with or without a blank after the comma
IntervalText(iv, blank) ==
    LET lo == IF iv.kind = "first" THEN <<"-", "I", "N", "F">> ELSE NumText(iv.lo)
        hi == IF iv.kind = "last" THEN <<"+", "I", "N", "F", ")">>
              ELSE NumText(iv.hi) \o <<"]">>
    IN  <<"(">> \o lo \o <<",">> \o blank \o hi

SplitListText(ivs, blank) == [j \in 1..Len(ivs) |-> IntervalText(ivs[j], blank)]

\* the sorted sequence of a set of numbers
RECURSIVE SortedSeq(_)
SortedSeq(S) ==
    IF S = {} THEN <<>>
    ELSE LET m == CHOOSE x \in S : \A y \in S : x <= y
         IN  <<m>> \o SortedSeq(S \ {m})

\* the consecutive intervals cut by a sorted sequence of breakpoints
ConsecutiveIntervals(bs) ==
    [j \in 1..(Len(bs) + 1) |->
        IF j = 1 THEN First(bs[1])
        ELSE IF j = Len(bs) + 1 THEN Last(bs[Len(bs)])
        ELSE Mid(bs[j - 1], bs[j])]

ConsecutiveLists ==
    { ConsecutiveIntervals(SortedSeq(S)) :
        S \in { T \in SUBSET Breakpoints : Cardinality(T) \in 1..MaxBreaks } }

LooseIntervals ==
    { First(b) : b \in LooseBreakpoints } \cup { Last(a) : a \in LooseBreakpoints }
    \cup { Mid(p[1], p[2]) :
             p \in { q \in LooseBreakpoints \X LooseBreakpoints : q[1] < q[2] } }

LooseLists == UNION { [1..n -> LooseIntervals] : n \in 1..MaxLoose }

\* the comparisons of the three branches
InFirstStrict(value, hi) == value < hi
InFirst(value, hi) == value <= hi

InLast(value, lo) == value > lo

InMid(value, lo, hi) == hi >= value /\ value > lo

\* one iteration of the loop: "ValueError", "hit" or "next"
DivisionStep(s, value) ==
    LET begin_index == IndexOf(s, "(")
        mid_index == IndexOf(s, ",")
        end_index == IndexOf(s, "]")
        upper == Slice(s, mid_index + 1, end_index)
        lower == Slice(s, begin_index + 1, mid_index)
    IN  IF begin_index = -1 \/ mid_index = -1 THEN "ValueError"
        ELSE IF InStr(<<"-", "I", "N", "F">>, s)
        THEN IF end_index = -1 \/ ~FloatOk(upper) THEN "ValueError"
             ELSE IF InFirst(value, Float(upper)) THEN "hit" ELSE "next"
        ELSE IF InStr(<<"+", "I", "N", "F">>, s)
        THEN IF ~FloatOk(lower) THEN "ValueError"
             ELSE IF InLast(value, Float(lower)) THEN "hit" ELSE "next"
        ELSE IF end_index = -1 \/ ~FloatOk(upper) THEN "ValueError"
             ELSE IF ~(Float(upper) >= value) THEN "next"
             ELSE IF ~FloatOk(lower) THEN "ValueError"
             ELSE IF InMid(value, Float(lower), Float(upper)) THEN "hit" ELSE "next"

RECURSIVE DivisionLoop(_, _, _)
DivisionLoop(split_list, value, i) ==
    IF i >= Len(split_list) THEN NoDivision
    ELSE LET step == DivisionStep(split_list[i + 1], value)
         IN  IF step = "ValueError" THEN ValueError
             ELSE IF step = "hit" THEN i + 1
             ELSE DivisionLoop(split_list, value, i + 1)

checkWhichDivision(split_list, value) == DivisionLoop(split_list, value, 0)

DivInit ==
    /\ pc = "call"
    /\ cur_intervals \in ConsecutiveLists \cup LooseLists
    /\ \E blank \in {<<>>, <<" ">>} : cur_split_list = SplitListText(cur_intervals, blank)
    /\ cur_value \in Values
    /\ division = None
    /\ IdleButDivision

DivCall ==
    /\ pc = "call"
    /\ division' = checkWhichDivision(cur_split_list, cur_value)
    /\ pc' = "returned"
    /\ UNCHANGED <<cur_intervals, cur_split_list, cur_value, OthersOfDivision>>

DivNext == DivCall

SpecDivision == DivInit /\ [][DivNext]_vars

\* what the claim says an interval contains
Holds(iv, value) ==
    IF iv.kind = "first" THEN value <= iv.hi
    ELSE IF iv.kind = "last" THEN value > iv.lo
    ELSE iv.lo < value /\ value <= iv.hi

\* C2: checkWhichDivision returns the 1-based position of the (first)
\* interval that contains the value, with (-INF,b] holding v iff v <= b,
\* (a,+INF) iff v > a and (a,b] iff a < v <= b; on a consecutive split list
\* every value gets exactly one index in 1..len, and a value equal to a
\* breakpoint b goes to the interval whose upper end is b.
C2_Division ==
    pc = "returned" =>
        LET n == Len(cur_intervals)
            in(j) == Holds(cur_intervals[j], cur_value)
        IN  /\ division \in 0..n
            /\ division = NoDivision <=> \A j \in 1..n : ~in(j)
            /\ division # NoDivision =>
                 in(division) /\ \A j \in 1..(division - 1) : ~in(j)
            /\ cur_intervals \in ConsecutiveLists =>
                 /\ division \in 1..n
                 /\ \A j \in 1..n : in(j) <=> j = division
                 /\ \A j \in 1..(n - 1) :
                      cur_value = cur_intervals[j].hi => division = j

\* a value equal to an inner breakpoint of a consecutive list of three or more
\* intervals was placed in the second interval
C2_Witness ==
    /\ pc = "returned"
    /\ cur_intervals \in ConsecutiveLists
    /\ Len(cur_intervals) >= 3
    /\ cur_value = cur_intervals[2].hi
    /\ division = 2
    /\ cur_split_list[2] = <<"(", "-", "3", ",", " ", "2", ".", "5", "]">>

---------------------------------------------------------------------------
(* generateOneHotByList *)

\* the columns of data/heloc_dataset_v2.csv; Pct1 is a name the dataset lacks
DataCols == { <<"E", "x", "t">>, <<"M", "S", "i", "n", "c", "e">>,
              <<"N", "6", "0", "E", "v", "2", "D">> }

\* rows of the dataset, one value (in tenths) per column
RowPool ==
    { [c \in DataCols |-> IF c = <<"E", "x", "t">> THEN p[1]
                          ELSE IF c = <<"M", "S", "i", "n", "c", "e">> THEN p[2]
                          ELSE p[3]] :
        p \in { <<-40, 25, 0>>, <<0, 30, 130>>, <<25, -30, 10>> } }

Datasets == UNION { [1..n -> RowPool] : n \in 0..MaxRows }

\* the binning results a variable can have: two bins or three
SplitChoices ==
    { SplitListText(ConsecutiveIntervals(<<0>>), <<>>),
      SplitListText(ConsecutiveIntervals(<<-30, 25>>), <<" ">>) }

SplitLists == UNION { [K -> SplitChoices] : K \in SUBSET DataCols }

\* pandas: DataFrame(), DataFrame(columns = names)
EmptyFrame == [columns |-> <<>>, rows |-> <<>>]
FrameOf(names) == [columns |-> names, rows |-> <<>>]

\* what stands for a frame when building it raised the ValueError
RaisedFrame == [error |-> "ValueError"]
Raised(df) == "error" \in DOMAIN df

\* DataFrame.empty: some axis has length 0
IsEmpty(df) == Len(df.columns) = 0 \/ Len(df.rows) = 0

\* df.append(row, ignore_index = True) of a dict keyed by the columns of df
AppendRow(df, row) ==
    [df EXCEPT !.rows = Append(@, [j \in 1..Len(df.columns) |-> row[df.columns[j]]])]

\* pd.concat([a, b], axis = 1) of two frames with the same index
ConcatColumns(a, b) ==
    [columns |-> a.columns \o b.columns,
     rows |-> [r \in 1..Len(a.rows) |-> a.rows[r] \o b.rows[r]]]

\* the loop over cur_col.index: dataframe_temp after the rows from r on
RECURSIVE RowsLoop(_, _, _, _, _)
RowsLoop(rows, v, col_names, r, dataframe_temp) ==
    IF r > Len(rows) THEN dataframe_temp
    ELSE LET which == checkWhichDivision(var_split_list[v], rows[r][v])
         IN  IF which = ValueError THEN RaisedFrame
             ELSE RowsLoop(rows, v, col_names, r + 1,
                           AppendRow(dataframe_temp, generateCurRowInDict(col_names, which)))

\* has dataframe_final no frame yet (line 147)
NothingYet(df) == IsEmpty(df)

\* the loop over list: dataframe_final after the variables from j on
RECURSIVE ListLoop(_, _, _, _)
ListLoop(vs, rows, j, dataframe_final) ==
    IF j > Len(vs) THEN dataframe_final
    ELSE IF vs[j] \notin DOMAIN var_split_list
    THEN ListLoop(vs, rows, j + 1, dataframe_final)
    ELSE LET col_names == generateColNames(vs[j], Len(var_split_list[vs[j]]))
             dataframe_temp == RowsLoop(rows, vs[j], col_names, 1, FrameOf(col_names))
         IN  IF Raised(dataframe_temp) THEN RaisedFrame
             ELSE IF NothingYet(dataframe_final)
                  THEN ListLoop(vs, rows, j + 1, dataframe_temp)
                  ELSE ListLoop(vs, rows, j + 1,
                                ConcatColumns(dataframe_final, dataframe_temp))

OhInit ==
    /\ pc = "call"
    /\ list \in UNION { [1..n -> VarNames] : n \in 1..MaxList }
    /\ var_split_list \in SplitLists
    /\ data \in Datasets
    /\ written = None
    /\ IdleButOneHot

\* only the first name of the list is looked up
MissingColumnOfFirst(vs) == vs[1] \notin DataCols

\* line 123: data[list] raises KeyError when a name is no column of data
MissingColumn(vs) == \E j \in 1..Len(vs) : vs[j] \notin DataCols

\* lines 122-125: the KeyError is turned into an Exception; no file is written
OhKeyError ==
    /\ pc = "call"
    /\ MissingColumn(list)
    /\ pc' = "Exception"
    /\ UNCHANGED <<ohVars, OthersOfOneHot>>

generateOneHotByList ==
    /\ pc = "call"
    /\ ~MissingColumn(list)
    /\ LET dataframe_final == ListLoop(list, data, 1, EmptyFrame)
       IN  IF Raised(dataframe_final)
           THEN pc' = "raised" /\ written' = written
           ELSE pc' = "returned" /\ written' = dataframe_final
    /\ UNCHANGED <<list, var_split_list, data, OthersOfOneHot>>

OhNext == OhKeyError \/ generateOneHotByList

SpecOneHot == OhInit /\ [][OhNext]_vars

\* the columns the claim names: var_1 .. var_n for every binned variable of
\* the list, in the order of the list
RECURSIVE NamedColumns(_, _)
NamedColumns(vs, j) ==
    IF j > Len(vs) THEN <<>>
    ELSE (IF vs[j] \in DOMAIN var_split_list
          THEN [b \in 1..Len(var_split_list[vs[j]]) |-> vs[j] \o <<"_">> \o Str(b)]
          ELSE <<>>) \o NamedColumns(vs, j + 1)

\* C3: the table generateOneHotByList writes has, for every binned variable
\* of the list, the columns var_1 .. var_n in the order of the list and then
\* by bin number (so as many columns as the bin counts add up to), and one
\* row per row of the dataset.
C3_TableLayout ==
    pc = "returned" =>
        /\ written.columns = NamedColumns(list, 1)
        /\ Len(written.rows) = Len(data)

\* C15: generateOneHotByList called with a list that names a column absent
\* from the dataset raises an Exception (in place of the KeyError) and
\* writes no output file.
C15_MissingColumnRaises ==
    ((\E j \in 1..Len(list) : list[j] \notin DataCols) /\ pc # "call") =>
        pc = "Exception" /\ written = None

\* the call that named Ext and then a column the dataset lacks has raised
C15_Witness ==
    /\ pc = "Exception"
    /\ Len(list) = 2
    /\ list[1] \in DataCols /\ list[2] \notin DataCols

---------------------------------------------------------------------------
(* sklearn's train_test_split, as the call sites use it *)

\* the shuffle of the row positions 0..n-1 that a random_state fixes: the
\* positions ordered by a key that depends on the seed (n is at most 10)
ShuffleKey(random_state, r) == ((r + 1) * ((random_state % 7) + 3)) % 11

RECURSIVE OrderByKey(_, _)
OrderByKey(random_state, S) ==
    IF S = {} THEN <<>>
    ELSE LET m == CHOOSE x \in S :
                    \A y \in S : ShuffleKey(random_state, x) <= ShuffleKey(random_state, y)
         IN  <<m>> \o OrderByKey(random_state, S \ {m})

Permutation(random_state, n) == OrderByKey(random_state, 0..(n - 1))

\* test_size is in tenths (3 is 0.3): n_test = ceil(test_size * n), the train
\* part is the rest; an empty train part raises ValueError (ok is FALSE)
train_test_split(n, test_size, random_state) ==
    LET n_test == (test_size * n + 9) \div 10
        n_train == n - n_test
        perm == Permutation(random_state, n)
    IN  [ok |-> n_train > 0,
         test |-> SubSeq(perm, 1, n_test),
         train |-> SubSeq(perm, n_test + 1, n_test + n_train)]

Range(f) == { f[j] : j \in DOMAIN f }

---------------------------------------------------------------------------
(* riskslim_in_use.run, as its callers see it *)

\* coefficients of a RiskSLIM solution
Coefficients == {-1, 2}

\* line 35: the split of the loaded data
RiskSlimSplit(n) == train_test_split(n, 3, 666)

\* line 78: the rows handed to riskslim.run_lattice_cpa are those of data
RiskSlimCpaRows(n) == 0..(n - 1)

\* the solutions run(file, returnSolution = True) can return for a table of
\* n rows whose first column is the label: the intercept, then one
\* coefficient per feature column; none when the split raises
RiskSlimSolutions(n_columns, n) ==
    IF RiskSlimSplit(n).ok THEN [1..n_columns -> Coefficients] ELSE {}

---------------------------------------------------------------------------
(* original_two_layer_model.run and LR_1_RiskSLIM_2.run *)

SubscaleNames == {"s1", "s2", "s3"}

\* the subscales dict in iteration order: distinct names
SubscaleOrders ==
    { q \in UNION { [1..n -> SubscaleNames] : n \in 0..MaxSubscales } :
        \A a, b \in DOMAIN q : a # b => q[a] # q[b] }

Event(op, what) == [op |-> op, what |-> what]

\* a table of probabilities: its columns, and the number of its rows
NoTable == [columns |-> <<>>, nrows |-> 0]
TableEmpty(t) == Len(t.columns) = 0 \/ t.nrows = 0

\* a label column, and the column predict_proba(...)[:, class] of a classifier
LabelColumn(name) == [name |-> name, clf |-> 0, class |-> 0, part |-> "train"]
ProbColumn(name, clf, class, part) ==
    [name |-> name, clf |-> clf, class |-> class, part |-> part]

\* the if/else on .empty that adds a one-column frame to the table
AddColumn(t, column, nrows) ==
    IF TableEmpty(t) THEN [columns |-> <<column>>, nrows |-> nrows]
    ELSE [columns |-> Append(t.columns, column), nrows |-> t.nrows]

\* DataFrame.insert(0, name, values)
InsertFirst(t, column, nrows) ==
    [columns |-> <<column>> \o t.columns,
     nrows |-> IF Len(t.columns) = 0 THEN nrows ELSE t.nrows]

\* the subscale's column of the training table and of the test table in
\* original_two_layer_model.run: predict_proba(...)[:, [0]]
OrigTrainColumn(subscale, lr) == ProbColumn(subscale, lr, 0, "train")

OrigTestColumnOtherClass(subscale) == ProbColumn(subscale, sub_lrs[subscale], 1, "test")
OrigTestColumn(subscale) == ProbColumn(subscale, sub_lrs[subscale], 0, "test")

\* the same in LR_1_RiskSLIM_2.run: predict_proba(...)[:, 0]
LR1TrainColumn(sub_name, lr) == ProbColumn(sub_name, lr, 0, "train")
LR1TestColumn(sub_name) == ProbColumn(sub_name, sub_lrs[sub_name], 0, "test")

TrainFile(v) == IF v = "original_two_layer_model"
                THEN "generate/ori2layer_subscale_prob_train.csv"
                ELSE "generate/lr1&riskslim2_prob_train.csv"
TestFile(v) == IF v = "original_two_layer_model"
               THEN "generate/ori2layer_subscale_prob_test.csv"
               ELSE "generate/lr1&riskslim2_prob_test.csv"
LabelName(v) == IF v = "original_two_layer_model" THEN "target" ELSE "RiskPerformance"

RunInit ==
    /\ variant \in {"original_two_layer_model", "LR_1_RiskSLIM_2"}
    /\ pc = IF variant = "original_two_layer_model" THEN "split" ELSE "train"
    /\ subscales \in SubscaleOrders
    /\ n_rows \in 0..MaxData
    /\ loop_i = 1
    /\ train_y = None /\ test_y = None
    /\ sub_lrs = <<>>
    /\ n_lr = 0
    /\ subscale_prob_train = NoTable
    /\ subscale_prob_test = NoTable
    /\ solution = None
    /\ files = <<>>
    /\ log = <<>>
    /\ result = None
    /\ IdleButRuns


\* original_two_layer_model.run, lines 16-23
OrigSplit ==
    /\ pc = "split" /\ variant = "original_two_layer_model"
    /\ LET s == train_test_split(n_rows, 3, 666)
       IN  IF s.ok
           THEN pc' = "train" /\ train_y' = s.train /\ test_y' = s.test
           ELSE pc' = "raised" /\ UNCHANGED <<train_y, test_y>>
    /\ UNCHANGED <<variant, subscales, n_rows, loop_i, sub_lrs, n_lr, subscale_prob_train,
                   subscale_prob_test, solution, files, log, result>>
    /\ UNCHANGED OthersOfRuns

\* lines 25-45: one iteration of the training loop
OrigTrain ==
    /\ pc = "train" /\ variant = "original_two_layer_model"
    /\ loop_i <= Len(subscales)
    /\ LET subscale == subscales[loop_i]
           lr == n_lr + 1
       IN  /\ n_lr' = lr
           /\ sub_lrs' = (subscale :> lr) @@ sub_lrs
           /\ log' = Append(log, Event("fit", subscale))
           /\ subscale_prob_train' =
                AddColumn(subscale_prob_train,
                          OrigTrainColumn(subscale, lr), Len(train_y))
    /\ loop_i' = loop_i + 1
    /\ UNCHANGED <<pc, variant, subscales, n_rows, train_y, test_y,
                   subscale_prob_test, solution, files, result>>
    /\ UNCHANGED OthersOfRuns

\* lines 48-54: the label column, the second-layer fit (which raises on a
\* table without feature columns) and the training file
OrigSecondLayer ==
    /\ pc = "train" /\ variant = "original_two_layer_model"
    /\ loop_i > Len(subscales)
    /\ LET t == InsertFirst(subscale_prob_train, LabelColumn("target"), Len(train_y))
       IN  /\ subscale_prob_train' = t
           /\ IF Len(t.columns) = 1
              THEN pc' = "raised" /\ UNCHANGED <<n_lr, log, files, loop_i>>
              ELSE /\ pc' = "test"
                   /\ n_lr' = n_lr + 1
                   /\ log' = log \o <<Event("fit", "second_layer_lr"),
                                      Event("to_csv", TrainFile(variant))>>
                   /\ files' = (TrainFile(variant) :> t) @@ files
                   /\ loop_i' = 1
    /\ UNCHANGED <<variant, subscales, n_rows, train_y, test_y, sub_lrs,
                   subscale_prob_test, solution, result>>
    /\ UNCHANGED OthersOfRuns

\* lines 62-79: one iteration of the test loop
OrigTest ==
    /\ pc = "test" /\ variant = "original_two_layer_model"
    /\ loop_i <= Len(subscales)
    /\ LET subscale == subscales[loop_i]
       IN  /\ log' = Append(log, Event("predict_test", subscale))
           /\ subscale_prob_test' =
                AddColumn(subscale_prob_test, OrigTestColumn(subscale), Len(test_y))
    /\ loop_i' = loop_i + 1
    /\ UNCHANGED <<pc, variant, subscales, n_rows, train_y, test_y, sub_lrs, n_lr,
                   subscale_prob_train, solution, files, result>>
    /\ UNCHANGED OthersOfRuns

\* lines 81-87
OrigReturn ==
    /\ pc = "test" /\ variant = "original_two_layer_model"
    /\ loop_i > Len(subscales)
    /\ files' = (TestFile(variant) :> subscale_prob_test) @@ files
    /\ log' = log \o <<Event("to_csv", TestFile(variant)), Event("return", "")>>
    /\ result' = <<"test_y", "pred_y", "pred_y_prob">>
    /\ pc' = "returned"
    /\ UNCHANGED <<variant, subscales, n_rows, loop_i, train_y, test_y, sub_lrs, n_lr,
                   subscale_prob_train, subscale_prob_test, solution>>
    /\ UNCHANGED OthersOfRuns

\* LR_1_RiskSLIM_2.run, lines 20-40: one iteration of the training loop
LR1Train ==
    /\ pc = "train" /\ variant = "LR_1_RiskSLIM_2"
    /\ loop_i <= Len(subscales)
    /\ LET sub_name == subscales[loop_i]
           s == train_test_split(n_rows, 3, 666)
           lr == n_lr + 1
       IN  IF s.ok
           THEN /\ train_y' = s.train /\ test_y' = s.test
                /\ n_lr' = lr
                /\ sub_lrs' = (sub_name :> lr) @@ sub_lrs
                /\ log' = Append(log, Event("fit", sub_name))
                /\ subscale_prob_train' =
                     AddColumn(subscale_prob_train, LR1TrainColumn(sub_name, lr),
                               Len(s.train))
                /\ loop_i' = loop_i + 1
                /\ pc' = pc
           ELSE /\ pc' = "raised"
                /\ UNCHANGED <<train_y, test_y, n_lr, sub_lrs, log,
                               subscale_prob_train, loop_i>>
    /\ UNCHANGED <<variant, subscales, n_rows, subscale_prob_test, solution, files, result>>
    /\ UNCHANGED OthersOfRuns

\* lines 42-43: train_y is unbound (NameError) when there was no subscale
LR1WriteTrain ==
    /\ pc = "train" /\ variant = "LR_1_RiskSLIM_2"
    /\ loop_i > Len(subscales)
    /\ IF train_y = None
       THEN pc' = "raised" /\ UNCHANGED <<subscale_prob_train, files, log>>
       ELSE LET t == InsertFirst(subscale_prob_train, LabelColumn("RiskPerformance"),
                                 Len(train_y))
            IN  /\ subscale_prob_train' = t
                /\ files' = (TrainFile(variant) :> t) @@ files
                /\ log' = Append(log, Event("to_csv", TrainFile(variant)))
                /\ pc' = "riskslim"
    /\ UNCHANGED <<variant, subscales, n_rows, loop_i, train_y, test_y, sub_lrs, n_lr,
                   subscale_prob_test, solution, result>>
    /\ UNCHANGED OthersOfRuns

\* line 46: the file handed to the second-layer RiskSLIM
LR1RiskSlimOfTestFile == "generate/lr1&riskslim2_prob_test.csv"
LR1RiskSlimFile == "generate/lr1&riskslim2_prob_train.csv"

\* lines 46-48: riskslim_in_use.run(file_path, returnSolution = True), which
\* raises when the file is missing or its split has an empty train part
LR1RiskSlim ==
    /\ pc = "riskslim" /\ variant = "LR_1_RiskSLIM_2"
    /\ log' = Append(log, Event("riskslim", LR1RiskSlimFile))
    /\ IF LR1RiskSlimFile \notin DOMAIN files
       THEN pc' = "raised" /\ UNCHANGED <<solution, loop_i>>
       ELSE LET f == files[LR1RiskSlimFile]
                sols == RiskSlimSolutions(Len(f.columns), f.nrows)
            IN  IF sols = {}
                THEN pc' = "raised" /\ UNCHANGED <<solution, loop_i>>
                ELSE /\ solution' \in sols
                     /\ pc' = "test"
                     /\ loop_i' = 1
    /\ UNCHANGED <<variant, subscales, n_rows, train_y, test_y, sub_lrs, n_lr,
                   subscale_prob_train, subscale_prob_test, files, result>>
    /\ UNCHANGED OthersOfRuns

\* lines 54-64: one iteration of the test loop
LR1Test ==
    /\ pc = "test" /\ variant = "LR_1_RiskSLIM_2"
    /\ loop_i <= Len(subscales)
    /\ LET sub_name == subscales[loop_i]
           s == train_test_split(n_rows, 3, 666)
       IN  /\ train_y' = s.train /\ test_y' = s.test
           /\ log' = Append(log, Event("predict_test", sub_name))
           /\ subscale_prob_test' =
                AddColumn(subscale_prob_test, LR1TestColumn(sub_name), Len(s.test))
    /\ loop_i' = loop_i + 1
    /\ UNCHANGED <<pc, variant, subscales, n_rows, sub_lrs, n_lr,
                   subscale_prob_train, solution, files, result>>
    /\ UNCHANGED OthersOfRuns

\* lines 66-77
LR1Return ==
    /\ pc = "test" /\ variant = "LR_1_RiskSLIM_2"
    /\ loop_i > Len(subscales)
    /\ files' = (TestFile(variant) :> subscale_prob_test) @@ files
    /\ log' = log \o <<Event("to_csv", TestFile(variant)), Event("return", "")>>
    /\ result' = <<"test_y", "pred_y", "pred_y_prob">>
    /\ pc' = "returned"
    /\ UNCHANGED <<variant, subscales, n_rows, loop_i, train_y, test_y, sub_lrs, n_lr,
                   subscale_prob_train, subscale_prob_test, solution>>
    /\ UNCHANGED OthersOfRuns

RunNext ==
    \/ OrigSplit \/ OrigTrain \/ OrigSecondLayer \/ OrigTest \/ OrigReturn
    \/ LR1Train \/ LR1WriteTrain \/ LR1RiskSlim \/ LR1Test \/ LR1Return

SpecLayers == RunInit /\ [][RunNext]_vars

ColumnNames(columns) == [j \in 1..Len(columns) |-> columns[j].name]

\* C4: in both runs one LogisticRegression is fitted per subscale; the
\* second-layer feature table (the table without its label column) has one
\* column per subscale, named after it, in the iteration order of subscales,
\* in the training table and in the test table alike; both columns of a
\* subscale are column 0 of predict_proba of the classifier fitted for it in
\* the training phase, and nothing is fitted once the test phase began.
C4_OneClassifierPerSubscale ==
    /\ \A a, b \in 1..Len(log) :
          a < b /\ log[a].op = "predict_test" => log[b].op # "fit"
    /\ pc = "returned" =>
        LET train == files[TrainFile(variant)].columns
            test == files[TestFile(variant)].columns
            features == SelectSeq(train, LAMBDA c : c.name # LabelName(variant))
            fits == SelectSeq(log, LAMBDA e : e.op = "fit" /\ e.what # "second_layer_lr")
        IN  /\ [j \in 1..Len(fits) |-> fits[j].what] = subscales
            /\ ColumnNames(features) = subscales
            /\ ColumnNames(test) = subscales
            /\ \A j \in 1..Len(subscales) :
                  /\ features[j].class = 0 /\ test[j].class = 0
                  /\ features[j].part = "train" /\ test[j].part = "test"
                  /\ features[j].clf = test[j].clf
                  /\ features[j].clf \in 1..n_lr
            /\ \A j, h \in 1..Len(subscales) : j # h => test[j].clf # test[h].clf

\* original_two_layer_model.run returned with two subscales
C4_Witness ==
    /\ pc = "returned"
    /\ variant = "original_two_layer_model"
    /\ Len(subscales) = 2
    /\ Len(files[TestFile(variant)].columns) = 2

IsPrefix(a, b) == Len(a) <= Len(b) /\ SubSeq(b, 1, Len(a)) = a

\* the order of stages the claim gives for LR_1_RiskSLIM_2.run
StagesInOrder ==
    [j \in 1..Len(subscales) |-> Event("fit", subscales[j])]
    \o << Event("to_csv", "generate/lr1&riskslim2_prob_train.csv"),
          Event("riskslim", "generate/lr1&riskslim2_prob_train.csv") >>
    \o [j \in 1..Len(subscales) |-> Event("predict_test", subscales[j])]
    \o << Event("to_csv", "generate/lr1&riskslim2_prob_test.csv"),
          Event("return", "") >>

\* C10: LR_1_RiskSLIM_2.run fits every first-layer LR, then writes the
\* training file with RiskPerformance as its first column, then invokes the
\* second-layer RiskSLIM once on that file, then computes the test
\* probabilities and writes the test file, then returns; RiskSLIM is never
\* invoked before the training file is written.
C10_StageOrder ==
    variant = "LR_1_RiskSLIM_2" =>
        /\ IsPrefix(log, StagesInOrder)
        /\ pc = "returned" => log = StagesInOrder
        /\ \A a \in 1..Len(log) :
              log[a].op = "riskslim" =>
                  /\ "generate/lr1&riskslim2_prob_train.csv" \in DOMAIN files
                  /\ \E b \in 1..(a - 1) :
                        log[b] = Event("to_csv", "generate/lr1&riskslim2_prob_train.csv")
        /\ "generate/lr1&riskslim2_prob_train.csv" \in DOMAIN files =>
              files["generate/lr1&riskslim2_prob_train.csv"].columns[1].name
                  = "RiskPerformance"

\* LR_1_RiskSLIM_2.run returned after two subscales and one RiskSLIM call
C10_Witness ==
    /\ pc = "returned"
    /\ variant = "LR_1_RiskSLIM_2"
    /\ Len(subscales) = 2
    /\ Cardinality({ a \in 1..Len(log) : log[a].op = "riskslim" }) = 1

---------------------------------------------------------------------------
(* printPerformance *)

\* the elif chain of lines 48-55
ClassifySwapped(pred, truth) ==
    IF pred = 1 /\ truth = 1 THEN "TP"
    ELSE IF pred = 1 /\ truth = -1 THEN "FN"
    ELSE IF pred = -1 /\ truth = 1 THEN "FP"
    ELSE IF pred = -1 /\ truth = -1 THEN "TN"
    ELSE "none"
Classify(pred, truth) ==
    IF pred = 1 /\ truth = 1 THEN "TP"
    ELSE IF pred = -1 /\ truth = 1 THEN "FN"
    ELSE IF pred = 1 /\ truth = -1 THEN "FP"
    ELSE IF pred = -1 /\ truth = -1 THEN "TN"
    ELSE "none"

\* the loop of lines 47-55 from index j on (0-based, as range(len(pred_y)))
RECURSIVE ConfusionLoop(_, _, _, _)
ConfusionLoop(truth, pred, j, lists) ==
    IF j >= Len(pred) THEN lists
    ELSE LET c == Classify(pred[j + 1], truth[j + 1])
         IN  ConfusionLoop(truth, pred, j + 1,
                           IF c = "none" THEN lists
                           ELSE [lists EXCEPT ![c] = Append(@, j)])

Confusion(truth, pred) ==
    ConfusionLoop(truth, pred, 0, [TP |-> <<>>, FN |-> <<>>, FP |-> <<>>, TN |-> <<>>])

\* the quotients of Python, as exact fractions <<numerator, denominator>>;
\* a fraction with denominator 0 stands for ZeroDivisionError
Quotient(a, b) == <<a, b>>
Undefined(x) == x[2] = 0
Times(x, y) == <<x[1] * y[1], x[2] * y[2]>>
Plus(x, y) == <<x[1] * y[2] + y[1] * x[2], x[2] * y[2]>>
Over(x, y) == <<x[1] * y[2], x[2] * y[1]>>

\* lines 57-60; None when one of the divisions raises ZeroDivisionError
Metrics(c) ==
    LET accuracy == Quotient(Len(c.TP) + Len(c.TN),
                             Len(c.TP) + Len(c.FP) + Len(c.TN) + Len(c.FN))
        precision == Quotient(Len(c.TP), Len(c.TP) + Len(c.FP))
        recall == Quotient(Len(c.TP), Len(c.TP) + Len(c.FN))
        ratio == Over(Times(precision, recall), Plus(precision, recall))
        F1_score == Times(Quotient(2, 1), ratio)
    IN  IF Undefined(accuracy) \/ Undefined(precision) \/ Undefined(recall)
           \/ Undefined(ratio)
        THEN [raised |-> TRUE]
        ELSE [raised |-> FALSE, accuracy |-> accuracy, precision |-> precision,
              recall |-> recall, F1_score |-> F1_score]

Labels == {1, -1}
\* 0 is what np.zeros leaves in a prediction that no threshold assigned
Predictions == {1, -1, 0}

PerfInit ==
    /\ pc = "call"
    /\ \E n \in 0..MaxPred :
          /\ pp_test_y \in [1..n -> Labels]
          /\ pp_pred_y \in [1..n -> Predictions]
    /\ TP = <<>> /\ FN = <<>> /\ FP = <<>> /\ TN = <<>>
    /\ printed = None
    /\ IdleButPerf

printPerformance ==
    /\ pc = "call"
    /\ LET c == Confusion(pp_test_y, pp_pred_y)
           r == Metrics(c)
       IN  /\ TP' = c.TP /\ FN' = c.FN /\ FP' = c.FP /\ TN' = c.TN
           /\ IF r.raised
              THEN pc' = "raised" /\ printed' = printed
              ELSE pc' = "returned" /\ printed' = r
    /\ UNCHANGED <<pp_test_y, pp_pred_y, OthersOfPerf>>

PerfNext == printPerformance

SpecPerf == PerfInit /\ [][PerfNext]_vars

\* the indices (0-based) of the test rows with a given prediction and label
Indices(pred, truth) ==
    { j \in 0..(Len(pp_pred_y) - 1) : pp_pred_y[j + 1] = pred /\ pp_test_y[j + 1] = truth }

SameFraction(x, y) == x[1] * y[2] = y[1] * x[2]

\* C6: printPerformance puts every index whose prediction and label are both
\* 1 or -1 into exactly one of TP (1, 1), FN (-1, 1), FP (1, -1), TN (-1, -1),
\* so that the four sizes add up to len(pred_y); it reports accuracy =
\* (TP+TN)/(TP+FP+TN+FN), precision = TP/(TP+FP), recall = TP/(TP+FN) and
\* F1 = 2*precision*recall/(precision+recall), and reports nothing (it
\* raises ZeroDivisionError) exactly when one of these quotients has a zero
\* denominator.
C6_Metrics ==
    pc \in {"returned", "raised"} =>
        LET tp == Cardinality(Indices(1, 1))
            fn == Cardinality(Indices(-1, 1))
            fp == Cardinality(Indices(1, -1))
            tn == Cardinality(Indices(-1, -1))
            P == <<tp, tp + fp>>
            R == <<tp, tp + fn>>
        IN  /\ Range(TP) = Indices(1, 1) /\ Len(TP) = tp
            /\ Range(FN) = Indices(-1, 1) /\ Len(FN) = fn
            /\ Range(FP) = Indices(1, -1) /\ Len(FP) = fp
            /\ Range(TN) = Indices(-1, -1) /\ Len(TN) = tn
            /\ (\A j \in 1..Len(pp_pred_y) : pp_pred_y[j] \in {1, -1})
                  => Len(TP) + Len(FN) + Len(FP) + Len(TN) = Len(pp_pred_y)
            /\ pc = "raised" <=> (tp + fp + tn + fn = 0 \/ tp + fp = 0 \/ tp + fn = 0 \/ tp = 0)
            /\ pc = "returned" =>
                  /\ SameFraction(printed.accuracy, <<tp + tn, tp + fp + tn + fn>>)
                  /\ SameFraction(printed.precision, P)
                  /\ SameFraction(printed.recall, R)
                  /\ printed.F1_score[2] # 0
                  /\ SameFraction(Times(printed.F1_score, Plus(P, R)),
                                  Times(<<2, 1>>, Times(P, R)))

\* a report on predictions that fill all four lists
C6_Witness ==
    /\ pc = "returned"
    /\ Len(TP) > 0 /\ Len(FN) > 0 /\ Len(FP) > 0 /\ Len(TN) > 0
    /\ printed.precision = <<1, 2>>

---------------------------------------------------------------------------
(* riskslim_in_use.run, step by step *)

\* probabilities sigmoid can give, in tenths: below, at and above 0.5
Probabilities == {2, 5, 7}

\* a float score as <<whole, tiny>>: whole in tenths, and tiny the part of it
\* that is lost when 1.0 + np.exp(-X) is rounded to a double (below 1e-16)
ScoreValues == {<<-30, 0>>, <<0, -1>>, <<0, 0>>, <<0, 1>>, <<30, 0>>}

\* is the score below 0
Negative(X) == X[1] < 0 \/ (X[1] = 0 /\ X[2] < 0)

\* sigmoid(X) = 1.0 / (1.0 + np.exp(-X)) in doubles, in tenths: one half for
\* every score whose whole part is 0, below it for a negative whole part and
\* above it for a positive one
sigmoid(X) == IF X[1] < 0 THEN 2 ELSE IF X[1] = 0 THEN 5 ELSE 7

\* the comparison with 0.5 made strict
ThresholdStrict(pred_y_prob) ==
    [j \in 1..Len(pred_y_prob) |-> IF pred_y_prob[j] <= 5 THEN -1 ELSE 1]

\* lines 95-97: np.zeros, then -1 below 0.5 and 1 from 0.5 on
Threshold(pred_y_prob) ==
    [j \in 1..Len(pred_y_prob) |-> IF pred_y_prob[j] < 5 THEN -1 ELSE 1]

\* the labels of the rows of a table (both classes occur from two rows on)
RowLabels(n) ==
    { [r \in 1..n |-> IF r % 2 = 1 THEN first ELSE 0 - first] : first \in Labels }

\* the values of a column at the row positions of a split part
AtRows(column, rows) == [j \in 1..Len(rows) |-> column[rows[j] + 1]]

RsInit ==
    /\ pc = "call"
    /\ file_path \in {None, "onehot/ALL_IN_ONE.csv"}
    /\ returnSolution \in BOOLEAN
    /\ \E n \in 0..MaxData, k \in 1..MaxFeatures :
          csv_file \in { [Y |-> y, n_features |-> k] : y \in RowLabels(n) }
    /\ train_X = None /\ test_X = None
    /\ cpa_data = None
    /\ model_info = None
    /\ pred_rows = None
    /\ pred_score = None
    /\ returned = None
    /\ IdleButRiskSlim

\* the check of file_path left out: the call goes on to load the file
RsCheckPathMissing ==
    /\ pc = "call" /\ file_path # Unused
    /\ pc' = "load"
    /\ UNCHANGED <<rsVars, OthersOfRiskSlim>>

\* lines 14-15
RsCheckPath ==
    /\ pc = "call" /\ file_path # Unused
    /\ pc' = IF file_path = None THEN "raised" ELSE "load"
    /\ UNCHANGED <<rsVars, OthersOfRiskSlim>>

\* lines 27-35: the data is loaded and split
RsLoadAndSplit ==
    /\ pc = "load" /\ file_path # Unused
    /\ LET s == RiskSlimSplit(Len(csv_file.Y))
       IN  IF s.ok
           THEN pc' = "train" /\ train_X' = s.train /\ test_X' = s.test
           ELSE pc' = "raised" /\ UNCHANGED <<train_X, test_X>>
    /\ UNCHANGED <<file_path, returnSolution, csv_file, cpa_data, model_info,
                   pred_rows, pred_score, returned, OthersOfRiskSlim>>

\* lines 38-78: the coefficient set, the settings, and run_lattice_cpa
RsTrain ==
    /\ pc = "train" /\ file_path # Unused
    /\ cpa_data' = RiskSlimCpaRows(Len(csv_file.Y))
    /\ model_info' \in [1..(csv_file.n_features + 1) -> Coefficients]
    /\ pc' = "trained"
    /\ UNCHANGED <<file_path, returnSolution, csv_file, train_X, test_X,
                   pred_rows, pred_score, returned, OthersOfRiskSlim>>

\* lines 86-87
RsReturnSolution ==
    /\ pc = "trained" /\ file_path # Unused /\ returnSolution
    /\ returned' = <<model_info>>
    /\ pc' = "returned"
    /\ UNCHANGED <<file_path, returnSolution, csv_file, train_X, test_X, cpa_data,
                   model_info, pred_rows, pred_score, OthersOfRiskSlim>>

\* lines 93-106: the prediction on test_X and the triple returned
RsPredict ==
    /\ pc = "trained" /\ file_path # Unused /\ ~returnSolution
    /\ pred_rows' = Range(test_X)
    /\ \E X \in [1..Len(test_X) -> ScoreValues] :
          LET pred_y_prob == [j \in 1..Len(X) |-> sigmoid(X[j])]
          IN  /\ pred_score' = X
              /\ returned' = <<Threshold(pred_y_prob), pred_y_prob,
                                AtRows(csv_file.Y, test_X)>>
    /\ pc' = "returned"
    /\ UNCHANGED <<file_path, returnSolution, csv_file, train_X, test_X, cpa_data,
                   model_info, OthersOfRiskSlim>>

RsNext == RsCheckPath \/ RsLoadAndSplit \/ RsTrain \/ RsReturnSolution \/ RsPredict

SpecRiskSlim == RsInit /\ [][RsNext]_vars

\* C8: riskslim_in_use.run splits the data 70/30, trains, then tests on the
\* test set: no row on which the returned pred_y is computed is among the
\* rows handed to riskslim.run_lattice_cpa for training.
C8_TestRowsNotTrained ==
    pc = "returned" /\ ~returnSolution => pred_rows \cap cpa_data = {}

\* C14: riskslim_in_use.run called with file_path None raises before it
\* reads any file, builds any coefficient set or calls run_lattice_cpa.
C14_NoneRaisesFirst ==
    file_path = None =>
        /\ pc \in {"call", "raised"}
        /\ train_X = None /\ test_X = None
        /\ cpa_data = None /\ model_info = None
        /\ returned = None

\* the call with file_path None has raised
C14_Witness == file_path = None /\ pc = "raised"

---------------------------------------------------------------------------
(* the driver: the four variants and their reports *)

\* what a run hands back to the driver, as the driver unpacks it
Unpacked(truth, pred, prob) == [test_y |-> truth, pred_y |-> pred, pred_y_prob |-> prob]

\* line 254: the targets of the triple riskslim_in_use.run returns
UnpackRiskSlimAsOthers(r) == Unpacked(r[1], r[2], r[3])
UnpackRiskSlim(r) == Unpacked(r[3], r[1], r[2])

\* riskslim_in_use.run('onehot/ALL_IN_ONE.csv'): the triples it can return
\* (pred_y, pred_y_prob, test_y); none when its split raises
RiskSlimReturns(Y) ==
    LET s == RiskSlimSplit(Len(Y))
    IN  IF s.ok
        THEN { <<Threshold(p), p, AtRows(Y, s.test)>> :
                 p \in [1..Len(s.test) -> Probabilities] }
        ELSE {}

\* LogisticRegression.predict: class 1 when its probability exceeds one half
Predict(pred_y_prob) ==
    [j \in 1..Len(pred_y_prob) |-> IF pred_y_prob[j] > 5 THEN 1 ELSE -1]

\* line 262: the split of the logistic-regression baseline
DriverSplit(n) == train_test_split(n, 3, 666)

\* lines 262-267: (test_y, pred_y, pred_y_prob) of the baseline
LogisticRegReturns(Y) ==
    LET s == DriverSplit(Len(Y))
    IN  IF s.ok
        THEN { <<AtRows(Y, s.test), Predict(p), p>> :
                 p \in [1..Len(s.test) -> Probabilities] }
        ELSE {}

\* original_two_layer_model.run(subscales, var_split_list): what it returns,
\* (test_y, pred_y, pred_y_prob); it raises when the split does or when
\* there is no subscale
TwoLayerSplit(n) == train_test_split(n, 3, 666)

TwoLayerReturns(Y, subs) ==
    LET s == TwoLayerSplit(Len(Y))
    IN  IF s.ok /\ Len(subs) > 0
        THEN { <<AtRows(Y, s.test), Predict(p), p>> :
                 p \in [1..Len(s.test) -> Probabilities] }
        ELSE {}

\* two_layer_riskslim.run(subscales, var_split_list): a triple
\* (test_y, pred_y, pred_y_prob) on the test rows of the fixed split
TwoLayerRiskSlimReturns(Y, subs) ==
    LET s == train_test_split(Len(Y), 3, 666)
    IN  IF s.ok /\ Len(subs) > 0
        THEN { <<AtRows(Y, s.test), Predict(p), p>> :
                 p \in [1..Len(s.test) -> Probabilities] }
        ELSE {}

\* the rows an algorithm was trained on and the rows it is evaluated on
Ran(name, trained_on, evaluated_on) ==
    [name |-> name, trained_on |-> trained_on, evaluated_on |-> evaluated_on]

\* the subscales of config/subscale.xml
ConfigSubscales == { SubSeq(<<"s1", "s2", "s3">>, 1, n) : n \in 0..MaxSubscales }

DriverInit ==
    /\ pc = "riskslim"
    /\ RUN_RISKSLIM \in BOOLEAN
    /\ RUN_LOGISTICREG \in BOOLEAN
    /\ RUN_TWOLAYER \in BOOLEAN
    /\ RUN_RISKSLIM_WITH_TWOLAYER \in BOOLEAN
    /\ \E n \in 0..MaxData : original_data_onehot \in RowLabels(n)
    /\ config_subscales \in ConfigSubscales
    /\ calls = <<>>
    /\ ran = <<>>
    /\ pending = None
    /\ IdleButDriver

DriverFlags == <<RUN_RISKSLIM, RUN_LOGISTICREG, RUN_TWOLAYER, RUN_RISKSLIM_WITH_TWOLAYER,
                 original_data_onehot, config_subscales>>

\* the flag that guards each block
RunsRiskSlim == RUN_RISKSLIM
RunsLogisticReg == RUN_LOGISTICREG
RunsTwoLayerOnOtherFlag == RUN_LOGISTICREG
RunsTwoLayer == RUN_TWOLAYER
RunsRiskSlimWithTwoLayer == RUN_RISKSLIM_WITH_TWOLAYER

\* a block that is switched off: the else branch prints a note
Skip(next) ==
    /\ pc' = next
    /\ UNCHANGED <<calls, ran, pending>>

\* a run that raises ends the script
Crash(name) ==
    /\ pc' = "crashed"
    /\ calls' = Append(calls, Event("run", name))
    /\ UNCHANGED <<ran, pending>>

\* printPerformance(name, test_y, pred_y, pred_y_prob) on what the run
\* returned; its ZeroDivisionError ends the script
Report(name, next) ==
    /\ calls' = Append(calls, Event("printPerformance", name))
    /\ pc' = IF Metrics(Confusion(pending.test_y, pending.pred_y)).raised
             THEN "crashed" ELSE next
    /\ pending' = None
    /\ UNCHANGED ran

\* lines 253-257
DriverRiskSlim ==
    /\ pc = "riskslim" /\ variant = Unused
    /\ IF ~RunsRiskSlim THEN Skip("logreg")
       ELSE LET n == Len(original_data_onehot)
                rets == RiskSlimReturns(original_data_onehot)
            IN  IF rets = {} THEN Crash("RiskSlim")
                ELSE /\ \E r \in rets : pending' = UnpackRiskSlim(r)
                     /\ calls' = Append(calls, Event("run", "RiskSlim"))
                     /\ ran' = Append(ran, Ran("RiskSlim", RiskSlimCpaRows(n),
                                              Range(RiskSlimSplit(n).test)))
                     /\ pc' = "print_riskslim"
    /\ UNCHANGED <<DriverFlags, OthersOfDriver>>

DriverReportRiskSlim ==
    /\ pc = "print_riskslim"
    /\ Report("RiskSlim", "logreg")
    /\ UNCHANGED <<DriverFlags, OthersOfDriver>>

\* lines 260-270
DriverLogisticReg ==
    /\ pc = "logreg"
    /\ IF ~RunsLogisticReg THEN Skip("twolayer")
       ELSE LET n == Len(original_data_onehot)
                rets == LogisticRegReturns(original_data_onehot)
            IN  IF rets = {} THEN Crash("LogisticReg")
                ELSE /\ \E r \in rets : pending' = Unpacked(r[1], r[2], r[3])
                     /\ calls' = Append(calls, Event("run", "LogisticReg"))
                     /\ ran' = Append(ran, Ran("LogisticReg", Range(DriverSplit(n).train),
                                              Range(DriverSplit(n).test)))
                     /\ pc' = "print_logreg"
    /\ UNCHANGED <<DriverFlags, OthersOfDriver>>

DriverReportLogisticReg ==
    /\ pc = "print_logreg"
    /\ Report("LogisticReg", "twolayer")
    /\ UNCHANGED <<DriverFlags, OthersOfDriver>>

\* lines 273-277
DriverTwoLayer ==
    /\ pc = "twolayer"
    /\ IF ~RunsTwoLayer THEN Skip("riskslim_twolayer")
       ELSE LET n == Len(original_data_onehot)
                rets == TwoLayerReturns(original_data_onehot, config_subscales)
            IN  IF rets = {} THEN Crash("Two-layer-model")
                ELSE /\ \E r \in rets : pending' = Unpacked(r[1], r[2], r[3])
                     /\ calls' = Append(calls, Event("run", "Two-layer-model"))
                     /\ ran' = Append(ran, Ran("Two-layer-model",
                                              Range(TwoLayerSplit(n).train),
                                              Range(TwoLayerSplit(n).test)))
                     /\ pc' = "print_twolayer"
    /\ UNCHANGED <<DriverFlags, OthersOfDriver>>

DriverReportTwoLayer ==
    /\ pc = "print_twolayer"
    /\ Report("Two-layer-model", "riskslim_twolayer")
    /\ UNCHANGED <<DriverFlags, OthersOfDriver>>

\* lines 280-284
DriverRiskSlimWithTwoLayer ==
    /\ pc = "riskslim_twolayer"
    /\ IF ~RunsRiskSlimWithTwoLayer THEN Skip("done")
       ELSE LET rets == TwoLayerRiskSlimReturns(original_data_onehot, config_subscales)
            IN  IF rets = {} THEN Crash("RiskSlim & Two-layer")
                ELSE /\ \E r \in rets : pending' = Unpacked(r[1], r[2], r[3])
                     /\ calls' = Append(calls, Event("run", "RiskSlim & Two-layer"))
                     /\ ran' = ran
                     /\ pc' = "print_riskslim_twolayer"
    /\ UNCHANGED <<DriverFlags, OthersOfDriver>>

DriverReportRiskSlimWithTwoLayer ==
    /\ pc = "print_riskslim_twolayer"
    /\ Report("RiskSlim & Two-layer", "done")
    /\ UNCHANGED <<DriverFlags, OthersOfDriver>>

DriverNext ==
    \/ DriverRiskSlim \/ DriverReportRiskSlim
    \/ DriverLogisticReg \/ DriverReportLogisticReg
    \/ DriverTwoLayer \/ DriverReportTwoLayer
    \/ DriverRiskSlimWithTwoLayer \/ DriverReportRiskSlimWithTwoLayer

SpecDriver == DriverInit /\ [][DriverNext]_vars

\* a variant's run followed by its report, when its flag is set
Block(flag, name) ==
    IF flag THEN <<Event("run", name), Event("printPerformance", name)>> ELSE <<>>

\* the calls the claim expects, in its fixed order
CallsInOrder ==
    Block(RUN_RISKSLIM, "RiskSlim") \o Block(RUN_LOGISTICREG, "LogisticReg")
    \o Block(RUN_TWOLAYER, "Two-layer-model")
    \o Block(RUN_RISKSLIM_WITH_TWOLAYER, "RiskSlim & Two-layer")

\* C5: the driver runs a variant iff its flag is true, in the order
\* RiskSLIM, logistic regression, two-layer, RiskSLIM-with-two-layer, and
\* calls printPerformance once after each variant that ran and never for
\* one that did not; with all four flags false nothing is run or printed.
\* (A script that an exception ended has made a prefix of these calls.)
C5_FlagsDecide ==
    /\ IsPrefix(calls, CallsInOrder)
    /\ pc = "done" => calls = CallsInOrder
    /\ pc \in {"print_riskslim", "print_logreg", "print_twolayer",
               "print_riskslim_twolayer"}
          <=> (calls # <<>> /\ calls[Len(calls)].op = "run" /\ pc # "crashed")
    /\ (~RUN_RISKSLIM /\ ~RUN_LOGISTICREG /\ ~RUN_TWOLAYER /\ ~RUN_RISKSLIM_WITH_TWOLAYER)
          => calls = <<>> /\ ran = <<>>

\* the script ended after running and reporting the baseline and the
\* two-layer model only
C5_Witness ==
    /\ pc = "done"
    /\ ~RUN_RISKSLIM /\ RUN_LOGISTICREG /\ RUN_TWOLAYER /\ ~RUN_RISKSLIM_WITH_TWOLAYER
    /\ Len(calls) = 4
    /\ calls[3] = Event("run", "Two-layer-model")

\* C7: every split uses test_size 0.3 and seed 666, so all compared
\* algorithms are evaluated on the same test rows and trained on the same
\* training rows.
C7_SameRows ==
    \A a, b \in 1..Len(ran) :
        /\ ran[a].evaluated_on = ran[b].evaluated_on
        /\ ran[a].trained_on = ran[b].trained_on

---------------------------------------------------------------------------
(* RiskSLIM_1_LR_1.run *)

ProbCache == "generate/riskslim&2layer_subscale_prob_train.csv"
SolutionCache == "generate/riskslim&2layer_subscale_solution.csv"
ScoreFile == "generate/riskslim&2layer_subscale_prob_test.csv"

\* a table with where it comes from: built in memory or read from a file
Origin(t, from) == [columns |-> t.columns, nrows |-> t.nrows, from |-> from]

\* the column of a subscale in the table of solutions
SolutionColumn(sub, sol) == [name |-> sub, solution |-> sol]

\* the files an earlier run with NEED_GENERATE_CSV left in generate/, for the
\* subscales that run was given
CacheOf(subs, n_train) ==
    (ProbCache :>
        [columns |-> <<LabelColumn("target")>>
                     \o [j \in 1..Len(subs) |-> ProbColumn(subs[j], 0, 0, "train")],
         nrows |-> n_train])
    @@ (SolutionCache :>
        [columns |-> [j \in 1..Len(subs) |->
                        SolutionColumn(subs[j], [h \in 1..(OneHotFeatures + 1) |-> 2])],
         nrows |-> OneHotFeatures + 1])

CachedInit ==
    /\ pc = "split"
    /\ variant = "RiskSLIM_1_LR_1"
    /\ NEED_GENERATE_CSV \in BOOLEAN
    /\ subscales \in SubscaleOrders
    /\ n_rows \in 0..MaxData
    /\ files \in { <<>> } \cup { CacheOf(q, Len(train_test_split(n_rows, 3, 666).train)) :
                                  q \in SubscaleOrders }
    /\ loop_i = 1
    /\ train_y = None /\ test_y = None
    /\ n_lr = 0
    /\ sub_prob = None
    /\ sub_solutions = None
    /\ subscale_score_test = NoTable
    /\ log = <<>>
    /\ result = None
    /\ sub_lrs = None /\ subscale_prob_train = None /\ subscale_prob_test = None
    /\ solution = None
    /\ IdleButCached

CachedFixed == <<variant, NEED_GENERATE_CSV, subscales, n_rows, sub_lrs,
                 subscale_prob_train, subscale_prob_test, OthersOfCached>>

\* line 27: the first layer is run
GeneratesAlways == TRUE
Generates == NEED_GENERATE_CSV

\* line 75: the tables are read from generate/
ReadsCache == ~NEED_GENERATE_CSV

\* lines 22-30
CachedSplit ==
    /\ pc = "split" /\ variant = "RiskSLIM_1_LR_1"
    /\ LET s == train_test_split(n_rows, 3, 666)
       IN  IF ~s.ok
           THEN pc' = "raised" /\ UNCHANGED <<train_y, test_y, sub_prob, sub_solutions>>
           ELSE /\ train_y' = s.train /\ test_y' = s.test
                /\ IF Generates
                   THEN pc' = "first_layer" /\ sub_prob' = NoTable /\ sub_solutions' = NoTable
                   ELSE pc' = "second_layer" /\ UNCHANGED <<sub_prob, sub_solutions>>
    /\ UNCHANGED <<loop_i, n_lr, subscale_score_test, solution, files, log, result,
                   CachedFixed>>

\* lines 32-64: one subscale of the first layer; the event names the
\* subscale whose file onehot/<sub>.csv is handed to riskslim_in_use.run
CachedFirstLayer ==
    /\ pc = "first_layer" /\ variant = "RiskSLIM_1_LR_1"
    /\ loop_i <= Len(subscales)
    /\ LET sub == subscales[loop_i]
           s == train_test_split(n_rows, 3, 666)
       IN  /\ log' = Append(log, Event("riskslim", sub))
           /\ \E sol \in RiskSlimSolutions(OneHotFeatures + 1, n_rows) :
                 /\ solution' = sol
                 /\ sub_solutions' = AddColumn(sub_solutions, SolutionColumn(sub, sol),
                                               Len(sol))
           /\ sub_prob' = AddColumn(sub_prob, ProbColumn(sub, 0, 0, "train"), Len(s.train))
    /\ loop_i' = loop_i + 1
    /\ UNCHANGED <<pc, train_y, test_y, n_lr, subscale_score_test, files, result,
                   CachedFixed>>

\* lines 66-69: both tables are written
CachedWrite ==
    /\ pc = "first_layer" /\ variant = "RiskSLIM_1_LR_1"
    /\ loop_i > Len(subscales)
    /\ LET t == InsertFirst(sub_prob, LabelColumn("target"), Len(train_y))
       IN  /\ sub_prob' = Origin(t, "memory")
           /\ files' = (ProbCache :> t) @@ (SolutionCache :> sub_solutions) @@ files
    /\ log' = log \o <<Event("to_csv", ProbCache), Event("to_csv", SolutionCache)>>
    /\ pc' = "second_layer"
    /\ UNCHANGED <<loop_i, train_y, test_y, n_lr, sub_solutions, subscale_score_test,
                   solution, result, CachedFixed>>

\* lines 73-79: the tables are read when they were not generated (a missing
\* file raises), and the second-layer LR is fitted (no feature column raises)
CachedSecondLayer ==
    /\ pc = "second_layer" /\ variant = "RiskSLIM_1_LR_1"
    /\ IF ReadsCache /\ ProbCache \notin DOMAIN files
       THEN /\ pc' = "raised"
            /\ UNCHANGED <<sub_prob, sub_solutions, log, n_lr, loop_i>>
       ELSE LET prob == IF ReadsCache THEN Origin(files[ProbCache], ProbCache)
                        ELSE sub_prob
                sols == IF ReadsCache THEN files[SolutionCache] ELSE sub_solutions
                reads == IF ReadsCache
                         THEN <<Event("read_csv", ProbCache), Event("read_csv", SolutionCache)>>
                         ELSE <<>>
            IN  /\ sub_prob' = prob
                /\ sub_solutions' = sols
                /\ IF Len(prob.columns) <= 1
                   THEN pc' = "raised" /\ log' = log \o reads /\ UNCHANGED <<n_lr, loop_i>>
                   ELSE /\ pc' = "test"
                        /\ log' = log \o reads \o <<Event("fit", prob.from)>>
                        /\ n_lr' = n_lr + 1
                        /\ loop_i' = 1
    /\ UNCHANGED <<train_y, test_y, subscale_score_test, solution, files, result,
                   CachedFixed>>

\* lines 88-120: the score column of one subscale on the test rows
CachedTest ==
    /\ pc = "test" /\ variant = "RiskSLIM_1_LR_1"
    /\ loop_i <= Len(subscales)
    /\ LET subscale == subscales[loop_i]
           s == train_test_split(n_rows, 3, 666)
       IN  IF \E j \in 1..Len(sub_solutions.columns) :
                 sub_solutions.columns[j].name = subscale
           THEN /\ subscale_score_test' =
                     AddColumn(subscale_score_test, ProbColumn(subscale, 0, 0, "test"),
                               Len(s.test))
                /\ log' = Append(log, Event("score_test", subscale))
                /\ loop_i' = loop_i + 1
                /\ pc' = pc
           ELSE /\ pc' = "raised"
                /\ UNCHANGED <<subscale_score_test, log, loop_i>>
    /\ UNCHANGED <<train_y, test_y, n_lr, sub_prob, sub_solutions, solution, files,
                   result, CachedFixed>>

\* lines 124-134
CachedReturn ==
    /\ pc = "test" /\ variant = "RiskSLIM_1_LR_1"
    /\ loop_i > Len(subscales)
    /\ files' = (ScoreFile :> subscale_score_test) @@ files
    /\ log' = log \o <<Event("to_csv", ScoreFile), Event("return", "")>>
    /\ result' = <<"test_y", "pred_y", "pred_y_prob">>
    /\ pc' = "returned"
    /\ UNCHANGED <<loop_i, train_y, test_y, n_lr, sub_prob, sub_solutions,
                   subscale_score_test, solution, CachedFixed>>

CachedNext ==
    \/ CachedSplit \/ CachedFirstLayer \/ CachedWrite \/ CachedSecondLayer
    \/ CachedTest \/ CachedReturn

SpecCached == CachedInit /\ [][CachedNext]_vars

\* the subscales whose one-hot file was handed to riskslim_in_use.run among
\* the first a events, in order
RiskSlimCalls(a) ==
    LET evs == SelectSeq(SubSeq(log, 1, a), LAMBDA e : e.op = "riskslim")
    IN  [j \in 1..Len(evs) |-> evs[j].what]

\* C9: with NEED_GENERATE_CSV false, riskslim_in_use.run is never called,
\* the second-layer LR is fitted from the prob_train file of generate/ and
\* the solutions are read from the solution file; with it true,
\* riskslim_in_use.run is called exactly once per subscale and both files
\* are written before the second-layer LR is fitted.
C9_CacheBetweenLayers ==
    /\ ~NEED_GENERATE_CSV => RiskSlimCalls(Len(log)) = <<>>
    /\ NEED_GENERATE_CSV => IsPrefix(RiskSlimCalls(Len(log)), subscales)
    /\ \A a \in 1..Len(log) :
          log[a].op = "fit" =>
              IF NEED_GENERATE_CSV
              THEN /\ RiskSlimCalls(a) = subscales
                   /\ \E b \in 1..(a - 1) : log[b] = Event("to_csv", ProbCache)
                   /\ \E b \in 1..(a - 1) : log[b] = Event("to_csv", SolutionCache)
                   /\ {ProbCache, SolutionCache} \subseteq DOMAIN files
              ELSE /\ log[a].what = ProbCache
                   /\ \E b \in 1..(a - 1) : log[b] = Event("read_csv", SolutionCache)
                   /\ sub_solutions = files[SolutionCache]
                   /\ \A b \in 1..Len(log) : log[b].op # "to_csv" \/ b > a
    /\ pc = "returned" =>
          /\ Cardinality({ a \in 1..Len(log) : log[a].op = "fit" }) = 1
          /\ NEED_GENERATE_CSV => RiskSlimCalls(Len(log)) = subscales

\* a run that generated the tables of two subscales and fitted the second layer
C9_Witness ==
    /\ pc = "returned"
    /\ NEED_GENERATE_CSV
    /\ Len(subscales) = 2
    /\ RiskSlimCalls(Len(log)) = subscales

---------------------------------------------------------------------------
(* what the runs return and what the driver makes of it *)

ReturnsInit == RsInit \/ RunInit \/ CachedInit \/ DriverInit

ReturnsNext == RsNext \/ RunNext \/ CachedNext \/ DriverNext

SpecReturns == ReturnsInit /\ [][ReturnsNext]_vars

\* the labels of the test rows of the driver's table
DriverTestLabels ==
    AtRows(original_data_onehot, DriverSplit(Len(original_data_onehot)).test)

\* C13: riskslim_in_use.run returns (pred_y, pred_y_prob, test_y) when
\* returnSolution is false, and only the solution, without a prediction
\* step, when it is true; the other variants return (test_y, pred_y,
\* pred_y_prob); the driver hands every result to printPerformance as
\* (test_y, pred_y, pred_y_prob).
C13_ReturnOrder ==
    /\ (file_path # Unused /\ pc = "returned") =>
          IF returnSolution
          THEN returned = <<model_info>> /\ pred_rows = None /\ pred_score = None
          ELSE /\ Len(returned) = 3
               /\ returned[3] = AtRows(csv_file.Y, test_X)
               /\ returned[2] = [j \in 1..Len(test_X) |-> sigmoid(pred_score[j])]
               /\ returned[1] \in [1..Len(test_X) -> {-1, 1}]
    /\ (variant # Unused /\ pc = "returned") =>
          result = <<"test_y", "pred_y", "pred_y_prob">>
    /\ pc \in {"print_riskslim", "print_logreg", "print_twolayer",
               "print_riskslim_twolayer"} =>
          /\ pending.test_y = DriverTestLabels
          /\ pending.pred_y \in [1..Len(DriverTestLabels) -> {-1, 1}]
          /\ pending.pred_y_prob \in [1..Len(DriverTestLabels) -> Probabilities]

\* the driver holds the result of riskslim_in_use.run, whose predictions
\* differ from the labels
C13_Witness ==
    /\ pc = "print_riskslim"
    /\ pending.pred_y # pending.test_y
    /\ pending.test_y = DriverTestLabels

---------------------------------------------------------------------------
(* the three copies of generateColNames *)

\* original_two_layer_model.py, lines 9-13
RECURSIVE generateColNamesOfTwoLayer(_, _)
generateColNamesOfTwoLayer(v, n) ==
    IF n <= 0 THEN <<>>
    ELSE Append(generateColNamesOfTwoLayer(v, n - 1), v \o <<"_">> \o StrNat(n))

\* RiskSLIM_1_LR_1.py, lines 13-17
RECURSIVE generateColNamesOfCached(_, _)
generateColNamesOfCached(v, n) ==
    IF n <= 0 THEN <<>>
    ELSE Append(generateColNamesOfCached(v, n - 1), v \o <<"_">> \o StrNat(n))

ColInit ==
    /\ pc = "call"
    /\ var \in VarNames
    /\ split_num \in 0..MaxBins
    /\ copy = None
    /\ col_list = None
    /\ whichDivision = Unused /\ temp_row = Unused
    /\ DivIdle /\ OhIdle /\ RunIdle /\ PerfIdle /\ RsIdle /\ DrvIdle /\ R1Idle
    /\ PrepIdle /\ L2Idle

OthersOfCol == <<var, split_num, whichDivision, temp_row, divVars, ohVars, runVars,
                 perfVars, rsVars, drvVars, r1Vars, prepVars, l2Vars>>

\* algorithm_compare.py line 134: the names generateOneHotByList writes
ColCallCompare ==
    /\ pc = "call"
    /\ copy' = "algorithm_compare"
    /\ col_list' = generateColNames(var, split_num)
    /\ pc' = "returned"
    /\ UNCHANGED OthersOfCol

\* original_two_layer_model.py lines 28, 65: the names that select columns
ColCallTwoLayer ==
    /\ pc = "call"
    /\ copy' = "original_two_layer_model"
    /\ col_list' = generateColNamesOfTwoLayer(var, split_num)
    /\ pc' = "returned"
    /\ UNCHANGED OthersOfCol

\* RiskSLIM_1_LR_1.py line 91: the names that select columns
ColCallCached ==
    /\ pc = "call"
    /\ copy' = "RiskSLIM_1_LR_1"
    /\ col_list' = generateColNamesOfCached(var, split_num)
    /\ pc' = "returned"
    /\ UNCHANGED OthersOfCol

ColNext == ColCallCompare \/ ColCallTwoLayer \/ ColCallCached

SpecColNames == ColInit /\ [][ColNext]_vars

\* is name the text of v, an underscore and the decimal numeral of k
IsNumbered(name, v, k) ==
    LET suffix == SubSeq(name, Len(v) + 2, Len(name))
    IN  /\ Len(name) > Len(v) + 1
        /\ SubSeq(name, 1, Len(v)) = v
        /\ name[Len(v) + 1] = "_"
        /\ AllDigits(suffix) /\ suffix[1] # "0"
        /\ DigitsVal(suffix) = k

\* C20: generateColNames(var, n) is the list var_1 .. var_n, of length n
\* and in increasing order (empty for n = 0), and the three copies return
\* the same list, so the names that select a subscale's columns are the
\* names generateOneHotByList writes.
C20_ColNames ==
    /\ pc = "returned" =>
          /\ Len(col_list) = split_num
          /\ \A k \in 1..split_num : IsNumbered(col_list[k], var, k)
    /\ generateColNamesOfTwoLayer(var, split_num) = generateColNames(var, split_num)
    /\ generateColNamesOfCached(var, split_num) = generateColNames(var, split_num)

\* the copy of algorithm_compare.py has returned eleven names, the last two
\* with a suffix of two digits
C20_Witness ==
    /\ pc = "returned"
    /\ copy = "algorithm_compare"
    /\ split_num = 11
    /\ col_list[11] = var \o <<"_", "1", "1">>

---------------------------------------------------------------------------
(* the preparation of the driver: features_detail.csv and subscale.xml *)

\* the variables of the dataset, as the files name them
FeatureNames == {"Ext", "MSince"}
\* the interval texts of the column split_list
SplitTexts == {"(-INF, 0]", "(0, +INF)"}

\* the rows of data/features_detail.csv: var_name and split_list
FeatureRows == [var_name : FeatureNames, split_list : SplitTexts]
SplitFiles == UNION { [1..n -> FeatureRows] : n \in 0..MaxFileRows }

\* a var element without a child node
NoChild == ""
\* the var elements of a subscale element, each by the text of its first child
VarElementLists ==
    { <<>>, <<"Ext">>, <<"MSince">>, <<"Ext", "Pct">>, <<"Pct", "Ext">>,
      <<"Ext", NoChild>> }
\* the subscale elements of a document, by their name attribute
SubscaleElements == [name : {"s1", "s2"}, vars : VarElementLists]
\* config/subscale.xml: the document element and its subscale elements
Documents ==
    [nodeName : {"root", "config"},
     subscale : UNION { [1..n -> SubscaleElements] : n \in 0..MaxElements }]
\* the documents the scan of features_detail.csv is tried with
FewDocuments ==
    { d \in Documents :
        \/ d.subscale = <<>>
        \/ d.subscale = <<[name |-> "s1", vars |-> <<"Ext", "Pct">>]>>
        \/ d.subscale = <<[name |-> "s1", vars |-> <<"Pct", "Ext">>],
                          [name |-> "s2", vars |-> <<"MSince">>]>> }

\* the dict subscales as the sequence of its items in insertion order:
\* d[key] = value replaces the value of a key the dict has and appends a new
\* key (the other dicts, whose order nothing uses, are functions)
HasKey(d, key) == \E j \in 1..Len(d) : d[j].key = key
SetItem(d, key, value) ==
    IF HasKey(d, key)
    THEN [j \in 1..Len(d) |-> IF d[j].key = key THEN [key |-> key, value |-> value]
                                                ELSE d[j]]
    ELSE Append(d, [key |-> key, value |-> value])
GetItem(d, key) == d[CHOOSE j \in 1..Len(d) : d[j].key = key].value
Keys(d) == [j \in 1..Len(d) |-> d[j].key]

\* the state of the script that the preparation does not touch
OthersOfPrep ==
    <<rowVars, divVars, list, data, written, variant, n_rows, loop_i, train_y, test_y,
      sub_lrs, n_lr, subscale_prob_train, subscale_prob_test, solution, files, log,
      result, perfVars, rsVars, drvVars, r1Vars, colVars, l2Vars,
      NEED_GENERATE_ONE_HOT_CSV>>

IdleButPrep ==
    /\ RowIdle /\ DivIdle /\ PerfIdle /\ RsIdle /\ DrvIdle /\ R1Idle /\ ColIdle /\ L2Idle
    /\ list = Unused /\ data = Unused /\ written = Unused
    /\ variant = Unused /\ n_rows = Unused /\ loop_i = Unused
    /\ train_y = Unused /\ test_y = Unused /\ sub_lrs = Unused /\ n_lr = Unused
    /\ subscale_prob_train = Unused /\ subscale_prob_test = Unused
    /\ solution = Unused /\ files = Unused /\ log = Unused /\ result = Unused
    /\ NEED_GENERATE_ONE_HOT_CSV = Unused

\* lines 163-174
PrepInit ==
    /\ pc = "first_scan"
    /\ split_file \in SplitFiles
    /\ rootNode \in FewDocuments
    /\ var_start_with = <<>>
    /\ var_all = <<>>
    /\ var_to_be_bin = <<>>
    /\ var_not_to_be_bin = {}
    /\ var_split_list = <<>>
    /\ subscales = <<>>
    /\ temp = None
    /\ IdleButPrep

\* line 184, for the row i (counted from 0): the row starts a variable
StartsVariableButFirst(f, i) == i # 0 /\ f[i + 1].var_name # f[i].var_name
StartsVariable(f, i) ==
    i = 0 \/ (i # 0 /\ f[i + 1].var_name # f[i].var_name)

\* lines 183-186: var_start_with and var_to_be_bin after the rows from i on
RECURSIVE FirstScanLoop(_, _, _, _)
FirstScanLoop(f, i, start_with, to_be_bin) ==
    IF i >= Len(f) THEN [var_start_with |-> start_with, var_to_be_bin |-> to_be_bin]
    ELSE IF StartsVariable(f, i)
         THEN FirstScanLoop(f, i + 1, (f[i + 1].var_name :> i) @@ start_with,
                            Append(to_be_bin, f[i + 1].var_name))
         ELSE FirstScanLoop(f, i + 1, start_with, to_be_bin)

FirstScan ==
    /\ pc = "first_scan"
    /\ LET r == FirstScanLoop(split_file, 0, var_start_with, var_to_be_bin)
       IN  /\ var_start_with' = r.var_start_with
           /\ var_to_be_bin' = r.var_to_be_bin
    /\ temp' = <<>>
    /\ pc' = "second_scan"
    /\ UNCHANGED <<split_file, rootNode, var_all, var_not_to_be_bin, var_split_list,
                   subscales, OthersOfPrep>>

\* lines 191-200: var_split_list and temp after the rows from i on
RECURSIVE SecondScanLoop(_, _, _, _)
SecondScanLoop(f, i, split_list, tmp) ==
    IF i >= Len(f) THEN [var_split_list |-> split_list, temp |-> tmp]
    ELSE IF i = Len(f) - 1
    THEN SecondScanLoop(f, i + 1,
                        (f[i + 1].var_name :> Append(tmp, f[i + 1].split_list))
                            @@ split_list,
                        Append(tmp, f[i + 1].split_list))
    ELSE IF i = 0 \/ f[i + 1].var_name = f[i].var_name
    THEN SecondScanLoop(f, i + 1, split_list, Append(tmp, f[i + 1].split_list))
    ELSE SecondScanLoop(f, i + 1, (f[i].var_name :> tmp) @@ split_list,
                        <<f[i + 1].split_list>>)

SecondScan ==
    /\ pc = "second_scan"
    /\ LET r == SecondScanLoop(split_file, 0, var_split_list, temp)
       IN  /\ var_split_list' = r.var_split_list
           /\ temp' = r.temp
    /\ pc' = "config"
    /\ UNCHANGED <<split_file, rootNode, var_all, var_not_to_be_bin, var_start_with,
                   var_to_be_bin, subscales, OthersOfPrep>>


\* line 207: the document element is the one the script expects
ReadsAnyDocument(node) == TRUE
ReadsDocument(node) == node.nodeName = "root"

\* lines 212-214: temp_sub and var_all after the var elements from j on;
\* childNodes[0] of a var element without child raises IndexError
RECURSIVE VarLoop(_, _, _, _)
VarLoop(vs, j, temp_sub, all) ==
    IF j > Len(vs) THEN [raised |-> FALSE, temp_sub |-> temp_sub, var_all |-> all]
    ELSE IF vs[j] = NoChild THEN [raised |-> TRUE, temp_sub |-> temp_sub, var_all |-> all]
    ELSE VarLoop(vs, j + 1, Append(temp_sub, vs[j]), Append(all, vs[j]))

\* lines 209-215: subscales and var_all after the subscale elements from j on
RECURSIVE SubscaleLoop(_, _, _, _)
SubscaleLoop(subs, j, d, all) ==
    IF j > Len(subs) THEN [raised |-> FALSE, subscales |-> d, var_all |-> all]
    ELSE LET r == VarLoop(subs[j].vars, 1, <<>>, all)
         IN  IF r.raised THEN [raised |-> TRUE, subscales |-> d, var_all |-> r.var_all]
             ELSE SubscaleLoop(subs, j + 1, SetItem(d, subs[j].name, r.temp_sub),
                               r.var_all)

\* lines 204-215
ReadConfig ==
    /\ pc = "config"
    /\ IF ReadsDocument(rootNode)
       THEN LET r == SubscaleLoop(rootNode.subscale, 1, subscales, var_all)
            IN  /\ subscales' = r.subscales
                /\ var_all' = r.var_all
                /\ pc' = IF r.raised THEN "raised" ELSE "difference"
       ELSE pc' = "difference" /\ UNCHANGED <<subscales, var_all>>
    /\ UNCHANGED <<split_file, rootNode, var_not_to_be_bin, var_start_with,
                   var_to_be_bin, var_split_list, temp, OthersOfPrep>>

\* line 217 (the list made of the set has no order to speak of)
Difference ==
    /\ pc = "difference"
    /\ var_not_to_be_bin' = Range(var_all) \ Range(var_to_be_bin)
    /\ pc' = "prepared"
    /\ UNCHANGED <<split_file, rootNode, var_all, var_start_with, var_to_be_bin,
                   var_split_list, subscales, temp, OthersOfPrep>>

PrepNext == FirstScan \/ SecondScan \/ ReadConfig \/ Difference

SpecPrep == PrepInit /\ [][PrepNext]_vars

\* the rows of each variable of the file are contiguous
Contiguous(f) ==
    \A a, b, c \in 1..Len(f) :
        (a < b /\ b < c /\ f[a].var_name = f[c].var_name) => f[b].var_name = f[a].var_name

\* the variables of the file
FileVariables(f) == { f[j].var_name : j \in 1..Len(f) }

\* the index, counted from 0, of the first row of a variable
FirstRowOf(f, v) ==
    (CHOOSE j \in 1..Len(f) : f[j].var_name = v /\ \A h \in 1..(j - 1) : f[h].var_name # v)
    - 1

\* the split_list values of the rows of a variable, in file order
SplitsOf(f, v) ==
    LET rows == SelectSeq(f, LAMBDA r : r.var_name = v)
    IN  [j \in 1..Len(rows) |-> rows[j].split_list]

\* C19: after the first scan var_start_with[name] is the index of the first
\* row of each variable and var_to_be_bin holds every variable of the file
\* once, in order of first appearance, when the rows of each variable are
\* contiguous; var_not_to_be_bin is the set of the variables of var_all that
\* are not in var_to_be_bin.
C19_FirstScan ==
    /\ (pc # "first_scan" /\ Contiguous(split_file)) =>
          /\ DOMAIN var_start_with = FileVariables(split_file)
          /\ \A v \in FileVariables(split_file) :
                var_start_with[v] = FirstRowOf(split_file, v)
          /\ Range(var_to_be_bin) = FileVariables(split_file)
          /\ \A a, b \in 1..Len(var_to_be_bin) :
                a < b => FirstRowOf(split_file, var_to_be_bin[a])
                           < FirstRowOf(split_file, var_to_be_bin[b])
    /\ pc = "prepared" =>
          var_not_to_be_bin = { v \in Range(var_all) : v \notin Range(var_to_be_bin) }

\* the script is prepared with a file of two variables and a config that
\* names a binned variable and one that is not binned
C19_Witness ==
    /\ pc = "prepared"
    /\ Len(split_file) = 3 /\ Contiguous(split_file)
    /\ Len(var_to_be_bin) = 2
    /\ "Ext" \in Range(var_to_be_bin)
    /\ var_not_to_be_bin = {"Pct"}

\* C12: after the grouping loop, for every variable of the file (the rows
\* of one variable being contiguous) var_split_list[name] is the sequence of
\* the split_list values of that variable's rows, in file order, also when
\* the last variable of the file has a single row.
C12_Grouping ==
    (pc \notin {"first_scan", "second_scan"} /\ Contiguous(split_file)) =>
        /\ DOMAIN var_split_list = FileVariables(split_file)
        /\ \A v \in FileVariables(split_file) :
              var_split_list[v] = SplitsOf(split_file, v)


---------------------------------------------------------------------------
(* the preparation, for every document *)

\* lines 163-174, with a features file of no row or of two
ConfigInit ==
    /\ pc = "first_scan"
    /\ split_file \in { f \in SplitFiles :
                          \/ f = <<>>
                          \/ /\ Len(f) = 2
                             /\ \A j \in 1..2 : f[j] = [var_name |-> "Ext",
                                                        split_list |-> "(-INF, 0]"] }
    /\ rootNode \in Documents
    /\ var_start_with = <<>>
    /\ var_all = <<>>
    /\ var_to_be_bin = <<>>
    /\ var_not_to_be_bin = {}
    /\ var_split_list = <<>>
    /\ subscales = <<>>
    /\ temp = None
    /\ IdleButPrep

SpecConfig == ConfigInit /\ [][PrepNext]_vars

\* the texts of the var elements of the subscale elements from j on, in
\* document order
RECURSIVE TextsFrom(_, _)
TextsFrom(subs, j) ==
    IF j > Len(subs) THEN <<>> ELSE subs[j].vars \o TextsFrom(subs, j + 1)

\* the last subscale element of the document that carries a name
LastNamed(subs, name) ==
    subs[CHOOSE j \in 1..Len(subs) :
            subs[j].name = name /\ \A h \in (j + 1)..Len(subs) : subs[h].name # name]

\* the config was read to its end
ConfigRead == pc \in {"difference", "prepared"}

---------------------------------------------------------------------------
(* the generation of the one-hot files by the driver (lines 234-248) *)

\* the variable lists a subscale of the config can have: binned or not,
\* and Pct1, which the dataset lacks
ConfigLists ==
    { <<<<"E", "x", "t">>>>, <<<<"E", "x", "t">>, <<"M", "S", "i", "n", "c", "e">>>>,
      <<<<"N", "6", "0", "E", "v", "2", "D">>>>, <<<<"P", "c", "t", "1">>>> }

\* the dicts subscales that the config can give
ConfigDicts ==
    UNION { { [j \in 1..n |-> [key |-> <<"s1", "s2", "s3", "s4">>[j], value |-> q[j]]] :
                q \in [1..n -> ConfigLists] } : n \in 0..MaxElements }

\* the binning results read from features_detail.csv
ConfigSplitLists ==
    { sl \in SplitLists :
        DOMAIN sl \subseteq { <<"E", "x", "t">>, <<"M", "S", "i", "n", "c", "e">> } }

\* data/heloc_dataset_v2.csv with no row or one
ConfigDatasets == { <<>> } \cup { <<r>> : r \in RowPool }

\* the column target of a row of the dataset
TargetOf(row) == IF row[<<"E", "x", "t">>] > 0 THEN 1 ELSE -1

RiskPerformance ==
    <<"R", "i", "s", "k", "P", "e", "r", "f", "o", "r", "m", "a", "n", "c", "e">>

\* the column pandas names when a file gives a column no name
UnnamedColumn == <<"U", "n", "n", "a", "m", "e", "d", ":", " ", "0">>

OthersOfGenerate ==
    <<rowVars, divVars, list, written, variant, n_rows, train_y, test_y,
      sub_lrs, n_lr, subscale_prob_train, subscale_prob_test, solution,
      result, perfVars, rsVars, drvVars, r1Vars, colVars, l2Vars,
      split_file, var_start_with, var_to_be_bin, var_not_to_be_bin, temp, rootNode,
      var_all>>

GenerateInit ==
    /\ pc = "generate"
    /\ NEED_GENERATE_ONE_HOT_CSV \in BOOLEAN
    /\ subscales \in ConfigDicts
    /\ var_split_list \in ConfigSplitLists
    /\ data \in ConfigDatasets
    /\ files = <<>>
    /\ log = <<>>
    /\ loop_i = 1
    /\ RowIdle /\ DivIdle /\ PerfIdle /\ RsIdle /\ DrvIdle /\ R1Idle /\ ColIdle /\ L2Idle
    /\ list = Unused /\ written = Unused
    /\ variant = Unused /\ n_rows = Unused
    /\ train_y = Unused /\ test_y = Unused /\ sub_lrs = Unused /\ n_lr = Unused
    /\ subscale_prob_train = Unused /\ subscale_prob_test = Unused
    /\ solution = Unused /\ result = Unused
    /\ split_file = Unused /\ var_start_with = Unused /\ var_to_be_bin = Unused
    /\ var_not_to_be_bin = Unused /\ temp = Unused /\ rootNode = Unused
    /\ var_all = Unused

GenerateFixed == <<NEED_GENERATE_ONE_HOT_CSV, subscales, var_split_list, data,
                   OthersOfGenerate>>

\* line 235
Generates1Hot == NEED_GENERATE_ONE_HOT_CSV

\* lines 247-248: the files of onehot/ are used as they are
GenerateSkip ==
    /\ pc = "generate"
    /\ ~Generates1Hot
    /\ pc' = "done"
    /\ UNCHANGED <<files, log, loop_i, GenerateFixed>>

\* the frame generateOneHotByList(vs, var_split_list, path) writes, or what
\* it raises
OneHotOf(vs) ==
    IF MissingColumn(vs) THEN [error |-> "Exception"]
    ELSE ListLoop(vs, data, 1, EmptyFrame)

\* temp_csv.insert(0, 'RiskPerformance', original_data['target']): the
\* values are aligned on the index of temp_csv
InsertLabel(frame) ==
    [columns |-> <<RiskPerformance>> \o frame.columns,
     rows |-> [r \in 1..Len(frame.rows) |-> <<TargetOf(data[r])>> \o frame.rows[r]]]

\* one loop that generates the file of a subscale and labels it at once
GenerateOneAndLabel ==
    /\ pc = "generate"
    /\ Generates1Hot
    /\ loop_i <= Len(subscales)
    /\ LET key == subscales[loop_i].key
           frame == OneHotOf(GetItem(subscales, key))
       IN  IF Raised(frame) \/ Len(frame.columns) = 0
           THEN pc' = "raised" /\ UNCHANGED <<files, log, loop_i>>
           ELSE /\ files' = (key :> InsertLabel(frame)) @@ files
                /\ log' = log \o <<Event("generateOneHotByList", key),
                                    Event("insert", key)>>
                /\ loop_i' = loop_i + 1
                /\ pc' = pc
    /\ UNCHANGED GenerateFixed

\* lines 237-238: the file of one subscale (key stands for onehot/<key>.csv)
GenerateOne ==
    /\ pc = "generate"
    /\ Generates1Hot
    /\ loop_i <= Len(subscales)
    /\ LET key == subscales[loop_i].key
           frame == OneHotOf(GetItem(subscales, key))
       IN  IF Raised(frame)
           THEN pc' = "raised" /\ UNCHANGED <<files, log, loop_i>>
           ELSE /\ files' = (key :> frame) @@ files
                /\ log' = Append(log, Event("generateOneHotByList", key))
                /\ loop_i' = loop_i + 1
                /\ pc' = pc
    /\ UNCHANGED GenerateFixed

\* line 241: the second loop starts when the first is over
GenerateAll ==
    /\ pc = "generate"
    /\ Generates1Hot
    /\ loop_i > Len(subscales)
    /\ pc' = "label"
    /\ loop_i' = 1
    /\ UNCHANGED <<files, log, GenerateFixed>>

\* lines 242-245: the file of one subscale gets the label column; a file
\* written from a frame without column either cannot be parsed
\* (EmptyDataError) or is read as one unnamed column, as pandas has it
LabelOne ==
    /\ pc = "label"
    /\ loop_i <= Len(subscales)
    /\ LET key == subscales[loop_i].key
           labelled(frame) ==
               /\ files' = (key :> InsertLabel(frame)) @@ files
               /\ log' = Append(log, Event("insert", key))
               /\ loop_i' = loop_i + 1
               /\ pc' = pc
       IN  IF Len(files[key].columns) = 0
           THEN \/ pc' = "raised" /\ UNCHANGED <<files, log, loop_i>>
                \/ labelled([columns |-> <<UnnamedColumn>>, rows |-> <<>>])
           ELSE labelled(files[key])
    /\ UNCHANGED GenerateFixed

\* line 246
LabelAll ==
    /\ pc = "label"
    /\ loop_i > Len(subscales)
    /\ pc' = "done"
    /\ UNCHANGED <<files, log, loop_i, GenerateFixed>>

GenerateNext ==
    \/ GenerateSkip \/ GenerateOne \/ GenerateAll \/ LabelOne \/ LabelAll

SpecGenerate == GenerateInit /\ [][GenerateNext]_vars

\* the writes the claim gives: every file generated, then every file labelled
WritesInOrder ==
    [j \in 1..Len(subscales) |-> Event("generateOneHotByList", subscales[j].key)]
    \o [j \in 1..Len(subscales) |-> Event("insert", subscales[j].key)]

\* C16: when NEED_GENERATE_ONE_HOT_CSV is true the driver generates one
\* one-hot file per subscale, and only after all of them are generated
\* inserts the label column RiskPerformance as the first column of each
\* file; when it is false the driver writes no one-hot file.
\* (A script that an exception ended has made a prefix of these writes.)
C16_GenerateThenLabel ==
    /\ ~NEED_GENERATE_ONE_HOT_CSV => files = <<>> /\ log = <<>>
    /\ NEED_GENERATE_ONE_HOT_CSV =>
          /\ IsPrefix(log, WritesInOrder)
          /\ DOMAIN files \subseteq Range(Keys(subscales))
          /\ \A j \in 1..Len(log) :
                log[j].op = "insert" =>
                    /\ DOMAIN files = Range(Keys(subscales))
                    /\ files[log[j].what].columns[1] = RiskPerformance
          /\ pc = "done" =>
                /\ log = WritesInOrder
                /\ \A j \in 1..Len(subscales) :
                      LET f == files[subscales[j].key]
                      IN  /\ f.columns[1] = RiskPerformance
                          /\ \A r \in 1..Len(f.rows) : f.rows[r][1] = TargetOf(data[r])
                          /\ \A c \in 2..Len(f.columns) : f.columns[c] # RiskPerformance

\* the files of two subscales were generated and then labelled
C16_Witness ==
    /\ pc = "done"
    /\ NEED_GENERATE_ONE_HOT_CSV
    /\ Len(subscales) = 2
    /\ Len(data) = 1
    /\ Len(files["s2"].columns) > 2
    /\ Len(files["s1"].rows) = 1


---------------------------------------------------------------------------
(* LR_1_RiskSLIM_2.run with the numbers of its second layer (lines 46-74) *)

\* the probabilities predict_proba gives for a test row, as <<whole, tiny>>
\* like the scores: 0.2, a double just below 0.5, and 0.8
ProbValues == {<<2, 0>>, <<5, -1>>, <<8, 0>>}

\* line 47 with the slice taken from the front
SolutionCoefFromFront(sol) == SubSeq(sol, 1, Len(sol) - 1)
\* line 47: solution[1:]
SolutionCoef(sol) == Tail(sol)

\* a coefficient times a probability, the sum of two numbers, and an integer
\* (the whole part is in tenths)
Scaled(c, X) == <<c * X[1], c * X[2]>>
Added(X, Y) == <<X[1] + Y[1], X[2] + Y[2]>>
Number(k) == <<10 * k, 0>>

\* np.dot(row, coef): the products of the entries at equal positions, summed
RECURSIVE DotTo(_, _, _)
DotTo(row, coef, n) ==
    IF n = 0 THEN Number(0)
    ELSE Added(DotTo(row, coef, n - 1), Scaled(coef[n], row[n]))
Dot(row, coef) == DotTo(row, coef, Len(coef))

\* line 68: np.array of the frame, row r holding the entry r of every column
RowOf(matrix, r) == [j \in 1..Len(matrix) |-> matrix[j][r]]

OthersOfSecond == <<rowVars, divVars, ohVars, perfVars, rsVars, drvVars, r1Vars,
                    prepVars, colVars>>

SecondInit == RunInit /\ variant = "LR_1_RiskSLIM_2"

\* lines 46-48: the solution of the second-layer RiskSLIM, its intercept
\* and its coefficients
SecondRiskSlim ==
    /\ pc = "riskslim" /\ variant = "LR_1_RiskSLIM_2"
    /\ log' = Append(log, Event("riskslim", LR1RiskSlimFile))
    /\ IF LR1RiskSlimFile \notin DOMAIN files
       THEN /\ pc' = "raised"
            /\ UNCHANGED <<solution, loop_i, riskslim_intercept, riskslim_coef,
                           test_matrix>>
       ELSE LET f == files[LR1RiskSlimFile]
                sols == RiskSlimSolutions(Len(f.columns), f.nrows)
            IN  IF sols = {}
                THEN /\ pc' = "raised"
                     /\ UNCHANGED <<solution, loop_i, riskslim_intercept,
                                    riskslim_coef, test_matrix>>
                ELSE /\ solution' \in sols
                     /\ riskslim_intercept' = solution'[1]
                     /\ riskslim_coef' = SolutionCoef(solution')
                     /\ test_matrix' = <<>>
                     /\ pc' = "test"
                     /\ loop_i' = 1
    /\ UNCHANGED <<variant, subscales, n_rows, train_y, test_y, sub_lrs, n_lr,
                   subscale_prob_train, subscale_prob_test, files, result>>
    /\ UNCHANGED <<score, pred_prob, pred_y, OthersOfSecond>>

\* lines 54-64: one iteration of the test loop, with the probabilities of
\* the subscale's classifier for the test rows
SecondTest ==
    /\ pc = "test" /\ variant = "LR_1_RiskSLIM_2"
    /\ loop_i <= Len(subscales)
    /\ LET sub_name == subscales[loop_i]
           s == train_test_split(n_rows, 3, 666)
       IN  /\ train_y' = s.train /\ test_y' = s.test
           /\ log' = Append(log, Event("predict_test", sub_name))
           /\ subscale_prob_test' =
                AddColumn(subscale_prob_test, LR1TestColumn(sub_name), Len(s.test))
           /\ \E column \in [1..Len(s.test) -> ProbValues] :
                 test_matrix' = Append(test_matrix, column)
    /\ loop_i' = loop_i + 1
    /\ UNCHANGED <<pc, variant, subscales, n_rows, sub_lrs, n_lr,
                   subscale_prob_train, solution, files, result>>
    /\ UNCHANGED <<riskslim_intercept, riskslim_coef, score, pred_prob, pred_y,
                   OthersOfSecond>>

\* lines 66-77: the test table is written, and every test row is scored,
\* squashed and thresholded
SecondPredict ==
    /\ pc = "test" /\ variant = "LR_1_RiskSLIM_2"
    /\ loop_i > Len(subscales)
    /\ files' = (TestFile(variant) :> subscale_prob_test) @@ files
    /\ log' = log \o <<Event("to_csv", TestFile(variant)), Event("return", "")>>
    /\ LET X == [r \in 1..subscale_prob_test.nrows |->
                   Added(Dot(RowOf(test_matrix, r), riskslim_coef),
                        Number(riskslim_intercept))]
           pred_y_prob == [r \in 1..Len(X) |-> sigmoid(X[r])]
       IN  /\ score' = X
           /\ pred_prob' = pred_y_prob
           /\ pred_y' = Threshold(pred_y_prob)
    /\ result' = <<"test_y", "pred_y", "pred_y_prob">>
    /\ pc' = "returned"
    /\ UNCHANGED <<variant, subscales, n_rows, loop_i, train_y, test_y, sub_lrs, n_lr,
                   subscale_prob_train, subscale_prob_test, solution>>
    /\ UNCHANGED <<riskslim_intercept, riskslim_coef, test_matrix, OthersOfSecond>>

SecondNext == LR1Train \/ LR1WriteTrain \/ SecondRiskSlim \/ SecondTest \/ SecondPredict

SpecSecondLayer == SecondInit /\ [][SecondNext]_vars


\* the position of the subscale's column in the test table
ColumnOf(name) ==
    CHOOSE k \in 1..Len(subscale_prob_test.columns) :
        subscale_prob_test.columns[k].name = name

\* the sum, over the first n subscales, of the subscale's coefficient in
\* the solution times the subscale's probability for test row r
RECURSIVE SubscaleSum(_, _)
SubscaleSum(r, n) ==
    IF n = 0 THEN Number(0)
    ELSE Added(SubscaleSum(r, n - 1),
               Scaled(solution[n + 1], test_matrix[ColumnOf(subscales[n])][r]))

\* C18: in LR_1_RiskSLIM_2.run the intercept is the first entry of the
\* solution and the coefficients are the entries after it, one per subscale,
\* coefficient j being the one of the j-th subscale, whose column is the
\* j-th of the test table; the score of a test row is the sum of its
\* probabilities times their subscales' coefficients, plus the intercept
C18_SecondLayerScore ==
    (variant = "LR_1_RiskSLIM_2" /\ pc \in {"test", "returned"}) =>
        /\ riskslim_intercept = solution[1]
        /\ Len(riskslim_coef) = Len(subscales)
        /\ \A j \in 1..Len(subscales) : riskslim_coef[j] = solution[j + 1]
        /\ pc = "returned" =>
              /\ ColumnNames(subscale_prob_test.columns) = subscales
              /\ Len(score) = subscale_prob_test.nrows
              /\ \A r \in 1..Len(score) :
                    score[r] = Added(SubscaleSum(r, Len(subscales)),
                                     Number(solution[1]))

C18_Witness ==
    /\ variant = "LR_1_RiskSLIM_2" /\ pc = "returned"
    /\ Len(subscales) = 2
    /\ solution[1] # solution[2] /\ solution[2] # solution[3]
    /\ \E r \in 1..Len(score) : test_matrix[1][r] # test_matrix[2][r]

---------------------------------------------------------------------------
(* the thresholding of riskslim_in_use.run and of LR_1_RiskSLIM_2.run *)

ThresholdInit == RsInit \/ SecondInit
ThresholdNext == RsNext \/ SecondNext
SpecThreshold == ThresholdInit /\ [][ThresholdNext]_vars

\* every label is 1 or -1, and is 1 exactly for a probability of 0.5 or more
LabelsByHalf(y, p) ==
    /\ Len(y) = Len(p)
    /\ \A j \in 1..Len(y) : y[j] \in {1, -1} /\ (y[j] = 1 <=> p[j] >= 5)

\* the label is 1 exactly for a score of 0 or more
LabelsBySign(y, X) == \A j \in 1..Len(y) : y[j] = 1 <=> ~Negative(X[j])

\* a score of 0 or more gives 1, and a score that is negative by more than
\* what the rounding of sigmoid loses gives -1
LabelsBySignButRounding(y, X) ==
    \A j \in 1..Len(y) : /\ ~Negative(X[j]) => y[j] = 1
                         /\ X[j][1] < 0 => y[j] = -1

RsPredicted == file_path \notin {Unused, None} /\ pc = "returned" /\ ~returnSolution
SecondPredicted == pc = "returned" /\ variant = "LR_1_RiskSLIM_2"

\* C17 as stated: in both runs every test row is labelled 1 or -1, never 0,
\* the label being 1 iff the probability is at least 0.5, and equivalently
\* iff the linear score is at least 0
C17_LabelIsSignOfScore ==
    /\ RsPredicted => /\ LabelsByHalf(returned[1], returned[2])
                      /\ LabelsBySign(returned[1], pred_score)
    /\ SecondPredicted => /\ LabelsByHalf(pred_y, pred_prob)
                          /\ LabelsBySign(pred_y, score)

\* C17 amended: every test row is labelled 1 or -1, never 0, the label being
\* 1 iff the probability is at least 0.5; a score of at least 0 gives 1, and
\* so does a negative score that sigmoid rounds to exactly 0.5, every other
\* negative score giving -1
C17_LabelIsHalfOfProbability ==
    /\ RsPredicted => /\ LabelsByHalf(returned[1], returned[2])
                      /\ LabelsBySignButRounding(returned[1], pred_score)
    /\ SecondPredicted => /\ LabelsByHalf(pred_y, pred_prob)
                          /\ LabelsBySignButRounding(pred_y, score)

C17_Witness ==
    /\ SecondPredicted
    /\ \E r \in 1..Len(score) : Negative(score[r]) /\ pred_prob[r] = 5 /\ pred_y[r] = 1
    /\ \E r \in 1..Len(score) : pred_y[r] = -1

====
